---- MODULE Spec2Model ----
(***************************************************************************)
(* Model of the in-process A2A message bus (src/src/a2a/protocol.py), the  *)
(* BaseAgent lifecycle (src/src/agents/base_agent.py) and the Router's     *)
(* dispatch (src/src/agents/router_agent.py).                              *)
(* Further parts: the Directory (src/src/a2a/registry.py), the specialist  *)
(* agents and the tool server (src/src/mcp), and the MultiAgentSystem      *)
(* (src/src/agents/orchestrator.py).                                       *)
(*                                                                         *)
(* Python values are modelled as follows.  A dict is a function whose      *)
(* DOMAIN is its key set.  None (as a message) is the record NoMessage,    *)
(* None (as a string argument) is the string NoneStr.  uuid4() is a fresh  *)
(* number drawn from the counter nextId.  A coroutine activation of        *)
(* send_message is a record of the sequence calls; its position between    *)
(* the statements of the source is the field pc.                           *)
(***************************************************************************)
EXTENDS Integers, Sequences, FiniteSets, TLC

VARIABLES
    handlers,      \* A2AProtocol._handlers      : name -> handler
    agent_urls,    \* A2AProtocol._agent_urls    : name -> url
    agent_cards,   \* A2AProtocol._agent_cards   : name -> AgentCard
    next_port,     \* A2AProtocol._next_port
    history,       \* A2AProtocol._message_history
    calls,         \* activations of send_message / send_message_sync
    nextId,        \* source of fresh uuid4() values
    lastOp,        \* per name, the last register/unregister call made (history variable)
    regOps,        \* number of register/unregister calls made so far
    invoked,       \* call ids in the order their handlers were invoked (history variable)
    queries,       \* activations of RouterAgent.handle_user_query
    agents,        \* AgentRegistry._agents         : name -> AgentInfo
    fetched,       \* what the last get_message_history call was given and returned
    db,            \* the tables customers and tickets behind the MCP server
    run,           \* the last run of a specialist's process (history variable)
    clients,       \* A2AProtocol._clients         : name -> A2AClient
    logs,          \* BaseAgent._logs of every constructed agent : name -> entries
    system,        \* the MultiAgentSystem: _initialized, agents constructed, calls begun
    threads,       \* callers of MultiAgentSystem: each one's position and locals
    ret,           \* what the last call of a Directory, Bus, message or tool operation returned
    lastDirOp      \* per name, the last Directory register/unregister call made (history variable)

vars == <<handlers, agent_urls, agent_cards, next_port, history, calls,
          nextId, lastOp, regOps, invoked, queries, agents, fetched, db, run,
          clients, logs, system, threads, ret, lastDirOp>>

----------------------------------------------------------------------------
(* Bounds of the model *)

\* total number of send_message activations (top-level and nested)
MaxCalls == 2
\* total number of register_handler / unregister_handler calls
MaxRegOps == 2
\* total number of user requests handed to the router
MaxQueries == 2

(* Program constants *)

\* A2AProtocol.__init__(base_port=9000)
BasePort == 9000

----------------------------------------------------------------------------
(* Values *)

\* MessageType
MessageType == {"query", "response", "data_request", "data_response",
                "task", "result", "error", "handoff"}

NoneStr == "<None>"
NoHandler == "<None>"

\* names a handler is registered under, and one name nobody registers
AgentNames == {"agent_a", "agent_b"}
Recipients == AgentNames \cup {"ghost"}
Senders == {"user"}
ConvIds == {"conv-1", "conv-2"}

\* The handlers given to register_handler.  echo, silent, raiser and chain are
\* plain coroutine functions; agent is a BaseAgent's bound handle_message.
HandlerKinds == {"echo", "silent", "raiser", "chain", "agent"}

\* A2AMessage(sender, recipient, type, payload, conversation_id) with a fresh message_id
A2AMessage(sender, recipient, type, payload, conversation_id, id) ==
    [sender |-> sender, recipient |-> recipient, type |-> type,
     payload |-> payload, conversation_id |-> conversation_id, message_id |-> id]

\* a row of the table customers
CustomerRow(id, name, email, phone) ==
    [id |-> id, name |-> name, email |-> email, phone |-> phone, status |-> "active"]

\* a row of the table tickets
TicketRow(id, customer_id, issue, status, priority) ==
    [id |-> id, customer_id |-> customer_id, issue |-> issue, status |-> status,
     priority |-> priority]

\* the rows insert_sample_data gives customer 5
SampleDb ==
    [customers |-> [id \in {5} |->
                       CustomerRow(5, "Test User 5", "user5@example.com", "+1-555-0005")],
     tickets |-> <<TicketRow(1, 5, "Email notifications not being received", "open",
                             "medium"),
                   TicketRow(2, 5, "Typo in welcome email", "resolved", "low")>>]

\* no specialist has run yet
NoRun == [agent |-> NoneStr]

\* nothing fetched yet
NotFetched == [arg |-> NoneStr, result |-> <<>>]

\* Python's None where an Optional[A2AMessage] is expected
NoMessage ==
    [sender |-> "", recipient |-> "", type |-> "none",
     payload |-> [none |-> TRUE], conversation_id |-> "", message_id |-> 0]

\* variant: "if response is not False"
TruthyAlways(response) == TRUE

\* bool(response): an A2AMessage defines neither __bool__ nor __len__, so only None is falsy
Truthy(response) == response # NoMessage

----------------------------------------------------------------------------
(* dict operations *)

DictGet(d, k, default) == IF k \in DOMAIN d THEN d[k] ELSE default

DictSet(d, k, v) == [x \in (DOMAIN d) \cup {k} |-> IF x = k THEN v ELSE d[x]]

DictPop(d, k) == [x \in (DOMAIN d) \ {k} |-> d[x]]

EmptyDict == [x \in {} |-> 0]

\* the threads that call into one MultiAgentSystem
Threads == {1, 2}

\* a thread that is not inside a call of the MultiAgentSystem
Idle == [pc |-> "idle"]

NoThreads == [t \in Threads |-> Idle]

\* MultiAgentSystem.__init__: self._initialized = False, no agent constructed yet
NoSystem == [initialized |-> FALSE, built |-> 0, calls |-> 0]

\* the MultiAgentSystem after one initialize()
InitializedSystem == [initialized |-> TRUE, built |-> 3, calls |-> 0]

\* no operation has returned yet
NoReturn == [op |-> NoneStr]

\* log_entry = f"[{self.name}] {message}"; about is the query it was emitted for
LogEntry(agent, about, message) == [agent |-> agent, about |-> about, message |-> message]

\* self.log(f"Agent '{self.name}' registered with capabilities: ...")
RegisteredEntry(name) == LogEntry(name, NoneStr, "registered")

----------------------------------------------------------------------------
(* A2AProtocol: the handler table and its side tables *)

\* variant: an existing registration is kept (setdefault instead of assignment)
InstallHandlerKeepsOld(hs, agent_name, handler) ==
    IF agent_name \in DOMAIN hs THEN hs ELSE DictSet(hs, agent_name, handler)

\* self._handlers[agent_name] = handler
InstallHandler(hs, agent_name, handler) == DictSet(hs, agent_name, handler)

\* self._handlers.pop(agent_name, None)
RemoveHandler(hs, agent_name) == DictPop(hs, agent_name)

\* handler = self._handlers.get(message.recipient)
LookupHandler(hs, recipient) == DictGet(hs, recipient, NoHandler)

\* AgentCard(name=agent_name, url=self._agent_urls[agent_name], ...)
AgentCard(agent_name, url) == [name |-> agent_name, url |-> url]

\* what the register/unregister calls made so far say the handler of a name is
Latest(name) ==
    IF name \in DOMAIN lastOp /\ lastOp[name].op = "register"
    THEN lastOp[name].handler ELSE NoHandler

\* a send_message_sync call that has not returned: it blocks the thread it was made on
SyncActive == {i \in 1..Len(calls) : calls[i].api = "sync" /\ calls[i].pc # "done"}

InFlight == {i \in 1..Len(calls) : calls[i].pc # "done"}

\* the nested sends made by the handler of activation i
Children(i) == {j \in 1..Len(calls) : calls[j].parent = i}

\* chain handlers that have been invoked and have not yet forwarded
PendingForwards ==
    {i \in 1..Len(calls) : calls[i].pc = "delivered" /\ calls[i].handler = "chain"
                           /\ Children(i) = {}}

\* activations a new top-level send to recipient will create (itself and a forward)
Need(recipient) == IF LookupHandler(handlers, recipient) = "chain" THEN 2 ELSE 1

HasRoom(recipient) ==
    Len(calls) + Cardinality(PendingForwards) + Need(recipient) <= MaxCalls

\* A2AProtocol.register_handler
register_handler(agent_name, handler) ==
    /\ regOps < MaxRegOps
    /\ SyncActive = {}
    /\ handler = "chain" => agent_name = "agent_a"
    /\ handlers' = InstallHandler(handlers, agent_name, handler)
    /\ next_port' = next_port + 1
    /\ agent_urls' = DictSet(agent_urls, agent_name, next_port)
    /\ agent_cards' = DictSet(agent_cards, agent_name, AgentCard(agent_name, next_port))
    /\ lastOp' = DictSet(lastOp, agent_name, [op |-> "register", handler |-> handler])
    /\ regOps' = regOps + 1
    /\ UNCHANGED <<history, calls, nextId, invoked, queries, agents, fetched, db, run,
                   clients, logs, system, threads, ret, lastDirOp>>

\* A2AProtocol.unregister_handler
unregister_handler(agent_name) ==
    /\ regOps < MaxRegOps
    /\ SyncActive = {}
    /\ handlers' = RemoveHandler(handlers, agent_name)
    /\ agent_cards' = DictPop(agent_cards, agent_name)
    /\ agent_urls' = DictPop(agent_urls, agent_name)
    /\ lastOp' = DictSet(lastOp, agent_name, [op |-> "unregister", handler |-> NoHandler])
    /\ clients' = DictPop(clients, agent_name)
    /\ regOps' = regOps + 1
    /\ UNCHANGED <<next_port, history, calls, nextId, invoked, queries, agents, fetched,
                   db, run, logs, system, threads, ret, lastDirOp>>

----------------------------------------------------------------------------
(* AgentRegistry (the Directory) and the construction of a BaseAgent *)

\* self._agents.get(name) when name is not registered: None
NoInfo == [name |-> NoneStr, description |-> NoneStr, capabilities |-> <<>>]

\* AgentInfo(name, description, capabilities)
AgentInfo(name, description, capabilities) ==
    [name |-> name, description |-> description, capabilities |-> capabilities]

\* the (description, capabilities) pairs agents are constructed with
AgentDescriptions ==
    {[description |-> "first", capabilities |-> <<"routing">>],
     [description |-> "second", capabilities |-> <<"support", "escalation">>]}

\* variant: the descriptor is not stored
DirectoryAfterRegisterSkipped(ag, name, description, capabilities) == ag

\* variant: a registered name keeps its descriptor (setdefault instead of assignment)
DirectoryAfterRegisterKeepsOld(ag, name, description, capabilities) ==
    IF name \in DOMAIN ag THEN ag
    ELSE DictSet(ag, name, AgentInfo(name, description, capabilities))

\* variant: the descriptor stays in the table
DirectoryAfterUnregisterKept(ag, name) == ag

\* AgentRegistry.register: self._agents[name] = info
DirectoryAfterRegister(ag, name, description, capabilities) ==
    DictSet(ag, name, AgentInfo(name, description, capabilities))

\* AgentRegistry.unregister: del self._agents[name] if present
DirectoryAfterUnregister(ag, name) == IF name \in DOMAIN ag THEN DictPop(ag, name) ELSE ag

\* AgentRegistry.unregister: return True if name in self._agents else False
UnregisterReturns(ag, name) == name \in DOMAIN ag

\* AgentRegistry.unregister(name)
registry_unregister(name) ==
    /\ agents' = DirectoryAfterUnregister(agents, name)
    /\ ret' = [op |-> "unregister", name |-> name, value |-> UnregisterReturns(agents, name),
               before |-> agents]
    /\ lastDirOp' = DictSet(lastDirOp, name, [op |-> "unregister", info |-> NoInfo])
    /\ UNCHANGED <<handlers, agent_urls, agent_cards, next_port, history, calls,
                   nextId, lastOp, regOps, invoked, queries, fetched, db, run,
                   clients, logs, system, threads>>

\* BaseAgent.__init__ with _register: the descriptor goes to the Directory and
\* the agent's handle_message is installed on the bus under its name
BaseAgentInit(name, description, capabilities) ==
    /\ regOps < MaxRegOps
    /\ SyncActive = {}
    /\ agents' = DirectoryAfterRegister(agents, name, description, capabilities)
    /\ handlers' = InstallHandler(handlers, name, "agent")
    /\ next_port' = next_port + 1
    /\ agent_urls' = DictSet(agent_urls, name, next_port)
    /\ agent_cards' = DictSet(agent_cards, name, AgentCard(name, next_port))
    /\ lastOp' = DictSet(lastOp, name, [op |-> "register", handler |-> "agent"])
    /\ regOps' = regOps + 1
    /\ logs' = DictSet(logs, name, <<RegisteredEntry(name)>>)
    /\ lastDirOp' = DictSet(lastDirOp, name,
                            [op |-> "register",
                             info |-> AgentInfo(name, description, capabilities)])
    /\ UNCHANGED <<history, calls, nextId, invoked, queries, fetched, db, run,
                   clients, system, threads, ret>>

----------------------------------------------------------------------------
(* A2AProtocol.send_message *)

\* variant: the request is not recorded
HistoryAfterSendSkipped(h, message) == h

\* variant: the history keeps only the latest request
HistoryAfterSendOnlyLatest(h, message) == <<message>>

\* self._message_history.append(message)
HistoryAfterSend(h, message) == Append(h, message)

\* variant: the response is written over the entry of the request
HistoryAfterReturnInPlace(h, response) ==
    IF Truthy(response) /\ Len(h) > 0 THEN [h EXCEPT ![Len(h)] = response] ELSE h

\* variant: the response is returned without being recorded
HistoryAfterReturnDropped(h, response) == h

\* if response: self._message_history.append(response)
HistoryAfterReturn(h, response) == IF Truthy(response) THEN Append(h, response) ELSE h

\* variant: the ERROR is addressed to the missing recipient instead of the sender
ErrorNotFoundToRecipient(message, id) ==
    A2AMessage("a2a_protocol", message.recipient, "error",
               [error |-> "Agent '" \o message.recipient \o "' not found"],
               message.conversation_id, id)

\* the ERROR message synthesized when the recipient has no handler
ErrorNotFound(message, id) ==
    A2AMessage("a2a_protocol", message.sender, "error",
               [error |-> "Agent '" \o message.recipient \o "' not found"],
               message.conversation_id, id)

\* the ERROR message synthesized when the handler raised: payload {"error": str(e)}
ErrorFromException(message, text, id) ==
    A2AMessage("a2a_protocol", message.sender, "error",
               [error |-> text], message.conversation_id, id)

\* asyncio.run(coro) raises RuntimeError when the calling thread already runs a loop
AsyncioRunRaises(runner, loopRunning) == runner = "direct" /\ loopRunning

\* the part of the state send_message works on
Bus == [history |-> history, calls |-> calls, nextId |-> nextId, invoked |-> invoked,
        queries |-> queries]

\* the activation record of one send_message(message) call
Activation(message, parent, api, runner, loopRunning) ==
    [msg |-> message, parent |-> parent, api |-> api, runner |-> runner,
     loopRunning |-> loopRunning,
     handler |-> NoHandler, latest |-> Latest(message.recipient),
     pc |-> "created", outcome |-> "PENDING", ret |-> NoMessage,
     invokedLen |-> 0, returnedLen |-> 0, proc |-> "n/a"]

\* variant: no try/except around the handler call, the exception reaches the caller
HandlerRaisedPropagates(b, i, text) ==
    [b EXCEPT !.calls = [b.calls EXCEPT ![i].pc = "done", ![i].outcome = "RAISED",
                                        ![i].returnedLen = Len(b.history)]]

\* response = await handler(message) returned: append the response if truthy, return it
HandlerReturned(b, i, response) ==
    [b EXCEPT !.history = HistoryAfterReturn(b.history, response),
              !.calls = [b.calls EXCEPT
                            ![i].pc = "done",
                            ![i].outcome = IF Truthy(response) THEN "RESPONDED" ELSE "SILENT",
                            ![i].ret = response,
                            ![i].returnedLen = Len(b.history)],
              !.nextId = IF Truthy(response) THEN b.nextId + 1 ELSE b.nextId]

\* await handler(message) raised an Exception whose str() is text: append and
\* return the ERROR message
HandlerRaised(b, i, text) ==
    LET err == ErrorFromException(b.calls[i].msg, text, b.nextId)
    IN  [b EXCEPT !.history = Append(b.history, err),
                  !.calls = [b.calls EXCEPT ![i].pc = "done", ![i].outcome = "ERRORED",
                                            ![i].ret = err,
                                            ![i].returnedLen = Len(b.history)],
                  !.nextId = b.nextId + 1]

\* echo_handler of the tests: a RESPONSE to the sender in the same conversation
EchoResponse(message, id) ==
    A2AMessage(message.recipient, message.sender, "response",
               [received |-> message.payload], message.conversation_id, id)

\* handlers that hold no await: they return or raise before anything else can run
Immediate == {"echo", "silent", "raiser"}

\* the handler of activation i runs to its end without suspending
RunImmediate(b, i) ==
    CASE b.calls[i].handler = "echo" ->
            HandlerReturned(b, i, EchoResponse(b.calls[i].msg, b.nextId))
      [] b.calls[i].handler = "silent" -> HandlerReturned(b, i, NoMessage)
      [] b.calls[i].handler = "raiser" -> HandlerRaised(b, i, "handler failed")
      [] OTHER -> b

\* send_message(message) up to the first suspension: the request is appended and
\* the handler looked up; without a handler the ERROR is appended and returned,
\* otherwise the handler is invoked.  message carries the id b.nextId.
SendMessage(b, message, parent, api, runner, loopRunning) ==
    LET id      == Len(b.calls) + 1
        act     == Activation(message, parent, api, runner, loopRunning)
        handler == LookupHandler(handlers, message.recipient)
        sent    == HistoryAfterSend(b.history, message)
        err     == ErrorNotFound(message, b.nextId + 1)
    IN  IF AsyncioRunRaises(runner, loopRunning)
        THEN [b EXCEPT !.calls = Append(b.calls, [act EXCEPT !.pc = "done",
                                                             !.outcome = "RAISED"]),
                       !.nextId = b.nextId + 1]
        ELSE IF handler = NoHandler
        THEN [b EXCEPT !.history = Append(sent, err),
                       !.calls = Append(b.calls, [act EXCEPT !.pc = "done",
                                                  !.outcome = "UNROUTABLE", !.ret = err]),
                       !.nextId = b.nextId + 2]
        ELSE RunImmediate(
               [b EXCEPT !.history = sent,
                         !.calls = Append(b.calls, [act EXCEPT !.pc = "delivered",
                                                    !.handler = handler,
                                                    !.invokedLen = Len(sent)]),
                         !.invoked = Append(b.invoked, id),
                         !.nextId = b.nextId + 1], id)

\* the bus part of the next state is b
BusBecomes(b) ==
    /\ history' = b.history
    /\ calls' = b.calls
    /\ nextId' = b.nextId
    /\ invoked' = b.invoked
    /\ queries' = b.queries

----------------------------------------------------------------------------
(* A2AProtocol.send_message_sync *)

\* variant: asyncio.run on the calling thread whatever the context
SyncRunnerNested(loopRunning) == "direct"

\* try: asyncio.get_running_loop() -> run on a worker thread's own loop;
\* except RuntimeError (no running loop) -> asyncio.run on the calling thread
SyncRunner(loopRunning) == IF loopRunning THEN "worker" ELSE "direct"

----------------------------------------------------------------------------
(* Handlers that suspend *)

\* agent_a_handler of the tests: the HANDOFF forwarded to agent_b
ChainForward(message, id) ==
    A2AMessage("agent_a", "agent_b", "handoff",
               [from_a |-> message.payload, processed_by |-> "A"],
               message.conversation_id, id)

\* agent_a_handler of the tests: the combined RESPONSE
ChainResponse(message, response_from_b, id) ==
    A2AMessage("agent_a", message.sender, "response",
               [result_a |-> "processed",
                result_b |-> IF Truthy(response_from_b)
                             THEN response_from_b.payload ELSE [none |-> TRUE]],
               message.conversation_id, id)

\* what the abstract step BaseAgent.process can do: return a payload, return None, raise
ProcessOutcomes ==
    {[kind |-> "result", value |-> [response |-> "ok"]],
     [kind |-> "none",   value |-> [none |-> TRUE]],
     [kind |-> "raise",  value |-> [error |-> "process failed"]]}

\* what a call of a coroutine function gives its caller: a value or an exception
Returns(value) == [raised |-> FALSE, value |-> value, text |-> ""]
Raises(text) == [raised |-> TRUE, value |-> NoMessage, text |-> text]

\* variant: handle_message without its try/except
HandleMessageNoCatch(name, message, outcome, id) ==
    CASE outcome.kind = "result" ->
            Returns(A2AMessage(name, message.sender, "response", outcome.value,
                               message.conversation_id, id))
      [] outcome.kind = "none" -> Returns(NoMessage)
      [] outcome.kind = "raise" -> Raises(outcome.value.error)

\* variant: the RESPONSE goes to message.recipient, i.e. back to the agent itself
HandleMessageToSelf(name, message, outcome, id) ==
    CASE outcome.kind = "result" ->
            Returns(A2AMessage(name, message.recipient, "response", outcome.value,
                               message.conversation_id, id))
      [] outcome.kind = "none" -> Returns(NoMessage)
      [] outcome.kind = "raise" ->
            Returns(A2AMessage(name, message.sender, "error", outcome.value,
                               message.conversation_id, id))

\* BaseAgent.handle_message of the agent called name, given what process did:
\* a result is wrapped into a RESPONSE, None is passed on, an Exception is caught
\* and turned into an ERROR message that is returned
HandleMessage(name, message, outcome, id) ==
    CASE outcome.kind = "result" ->
            Returns(A2AMessage(name, message.sender, "response", outcome.value,
                               message.conversation_id, id))
      [] outcome.kind = "none" -> Returns(NoMessage)
      [] outcome.kind = "raise" ->
            Returns(A2AMessage(name, message.sender, "error", outcome.value,
                               message.conversation_id, id))

\* response = await handler(message), for a handler call that gave r
HandlerCompleted(b, i, r) ==
    IF r.raised THEN HandlerRaised(b, i, r.text) ELSE HandlerReturned(b, i, r.value)

\* remember what process did in activation i (history information)
Noting(b, i, outcome) == [b EXCEPT !.calls[i].proc = outcome.kind]

----------------------------------------------------------------------------
(* Scheduling *)

Max(S) == CHOOSE x \in S : \A y \in S : y <= x

RECURSIVE WithinCall(_, _)
\* activation i is activation s or was made (transitively) by its handler
WithinCall(i, s) ==
    \/ i = s
    \/ calls[i].parent # 0 /\ WithinCall(calls[i].parent, s)

\* the handler of activation i can take its next step: it is not awaiting a
\* nested send, and its thread is not blocked in send_message_sync
CanStep(i) ==
    /\ calls[i].pc = "delivered"
    /\ \A j \in Children(i) : calls[j].pc = "done"
    /\ SyncActive # {} => WithinCall(i, Max(SyncActive))

\* A2AMessage(...) built by a caller of the bus
UserMessage(recipient, conversation_id, id) ==
    A2AMessage("user", recipient, "query", [message |-> "Hello"], conversation_id, id)

(* Actions *)

\* await protocol.send_message(msg) from a coroutine of the main loop
Send(recipient, conversation_id) ==
    /\ SyncActive = {}
    /\ HasRoom(recipient)
    /\ BusBecomes(SendMessage(Bus, UserMessage(recipient, conversation_id, nextId),
                              0, "await", "caller", TRUE))
    /\ UNCHANGED <<handlers, agent_urls, agent_cards, next_port, lastOp, regOps,
                   agents, fetched, db, run,
                   clients, logs, system, threads, ret, lastDirOp>>

\* protocol.send_message_sync(msg), from plain code or from code run by a loop
SendSync(recipient, conversation_id, loopRunning) ==
    /\ SyncActive = {}
    /\ HasRoom(recipient)
    /\ ~loopRunning => InFlight = {}
    /\ BusBecomes(SendMessage(Bus, UserMessage(recipient, conversation_id, nextId),
                              0, "sync", SyncRunner(loopRunning), loopRunning))
    /\ UNCHANGED <<handlers, agent_urls, agent_cards, next_port, lastOp, regOps,
                   agents, fetched, db, run,
                   clients, logs, system, threads, ret, lastDirOp>>

\* agent_a_handler forwards: by awaiting send_message, or through send_message_sync
ChainForwards(i, api) ==
    /\ CanStep(i) /\ calls[i].handler = "chain" /\ Children(i) = {}
    /\ Len(calls) < MaxCalls
    /\ BusBecomes(SendMessage(Bus, ChainForward(calls[i].msg, nextId), i, api,
                              IF api = "sync" THEN SyncRunner(TRUE) ELSE "caller", TRUE))
    /\ UNCHANGED <<handlers, agent_urls, agent_cards, next_port, lastOp, regOps,
                   agents, fetched, db, run,
                   clients, logs, system, threads, ret, lastDirOp>>

\* agent_a_handler returns the combined result once the forward has returned
ChainReturns(i) ==
    /\ CanStep(i) /\ calls[i].handler = "chain" /\ Children(i) # {}
    /\ LET j == CHOOSE j \in Children(i) : TRUE
       IN  BusBecomes(HandlerReturned(Bus, i,
                                      ChainResponse(calls[i].msg, calls[j].ret, nextId)))
    /\ UNCHANGED <<handlers, agent_urls, agent_cards, next_port, lastOp, regOps,
                   agents, fetched, db, run,
                   clients, logs, system, threads, ret, lastDirOp>>

\* a BaseAgent's handle_message runs process and returns
AgentHandles(i, outcome) ==
    /\ CanStep(i) /\ calls[i].handler = "agent"
    /\ BusBecomes(Noting(HandlerCompleted(Bus, i,
                    HandleMessage(calls[i].msg.recipient, calls[i].msg, outcome, nextId)),
                    i, outcome))
    /\ UNCHANGED <<handlers, agent_urls, agent_cards, next_port, lastOp, regOps,
                   agents, fetched, db, run,
                   clients, logs, system, threads, ret, lastDirOp>>

----------------------------------------------------------------------------
(* A2AProtocol.get_message_history and clear_history *)

\* the values get_message_history is called with: no argument, "", and real ids
HistoryArgs == {NoneStr, ""} \cup ConvIds

\* bool(s) for an Optional[str]: None and "" are falsy
StrTruthy(s) == s \notin {NoneStr, ""}

\* if conversation_id: return [m for m in history if m.conversation_id == conversation_id]
\* return history.copy()
GetMessageHistory(h, conversation_id) ==
    IF StrTruthy(conversation_id)
    THEN SelectSeq(h, LAMBDA m : m.conversation_id = conversation_id)
    ELSE h

\* self._message_history.clear()
HistoryAfterClear(h) == <<>>

\* A2AProtocol.get_message_history(conversation_id)
get_message_history(conversation_id) ==
    /\ fetched' = [arg |-> conversation_id,
                   result |-> GetMessageHistory(history, conversation_id)]
    /\ UNCHANGED <<handlers, agent_urls, agent_cards, next_port, history, calls,
                   nextId, lastOp, regOps, invoked, queries, agents, db, run,
                   clients, logs, system, threads, ret, lastDirOp>>

\* A2AProtocol.clear_history, also reached through MultiAgentSystem.clear_history
clear_history ==
    /\ history' = HistoryAfterClear(history)
    /\ UNCHANGED <<handlers, agent_urls, agent_cards, next_port, calls,
                   nextId, lastOp, regOps, invoked, queries, agents, fetched, db, run,
                   clients, logs, system, threads, ret, lastDirOp>>

----------------------------------------------------------------------------
(* RouterAgent.handle_user_query and the MultiAgentSystem entry point *)

SpecialistNames == {"customer_data", "support"}

\* None where a payload is expected
NonePayload == [none |-> TRUE]

\* customer_id is None
NoCustomerId == -1

\* conversation_id=conversation_id or "" : None and "" both give ""
ConversationIdOrEmpty(conversation_id) ==
    IF conversation_id \in {NoneStr, ""} THEN "" ELSE conversation_id

\* what _analyze_query hands to the dispatch: the two routing flags
Analyses == [requires_customer_data : BOOLEAN, requires_support : BOOLEAN]

\* what the synthesis call of the LLM does
SynthesisOutcomes == {"answers", "raises"}

\* nothing returned yet
NoResponse == [text |-> "", prompt |-> <<>>, llm_called |-> FALSE]

\* one activation of handle_user_query(query, conversation_id); via is the
\* send_message activation whose handler (the router's) made the call, 0 if the
\* call came from process_query_async; response is the "response" of the result,
\* for each thing the synthesis call can do
QueryActivation(query, conversation_id, analysis, via) ==
    [query |-> query,
     conversation_id |-> conversation_id, analysis |-> analysis, via |-> via,
     pc |-> "analyzed", awaiting |-> 0, dispatches |-> <<>>,
     agent_responses |-> EmptyDict, agents_used |-> <<>>,
     response |-> [o \in SynthesisOutcomes |-> NoResponse]]

\* BaseAgent.send_to_agent: build the message and await protocol.send_message
SendToAgent(b, name, recipient, type, payload, conversation_id, parent) ==
    SendMessage(b, A2AMessage(name, recipient, type, payload,
                              ConversationIdOrEmpty(conversation_id), b.nextId),
                parent, "await", "caller", TRUE)

\* the router sends a QUERY to a specialist and awaits the answer
Dispatch(b, q, recipient, payload) ==
    LET sent == SendToAgent(b, "router", recipient, "query", payload,
                            b.queries[q].conversation_id, b.queries[q].via)
        j    == Len(sent.calls)
    IN  [sent EXCEPT !.queries[q].pc = recipient,
                     !.queries[q].awaiting = j,
                     !.queries[q].dispatches = Append(@, j)]

\* variant: the payload of an ERROR is collected too
CollectIncludingErrors(b, q) ==
    LET response == b.calls[b.queries[q].awaiting].ret
    IN  IF Truthy(response)
        THEN [b EXCEPT !.queries[q].agent_responses =
                            DictSet(@, b.queries[q].pc, response.payload)]
        ELSE b

\* if response and response.type != MessageType.ERROR:
\*     agent_responses[recipient] = response.payload
Collect(b, q) ==
    LET response == b.calls[b.queries[q].awaiting].ret
    IN  IF Truthy(response) /\ response.type # "error"
        THEN [b EXCEPT !.queries[q].agent_responses =
                            DictSet(@, b.queries[q].pc, response.payload)]
        ELSE b

\* list(agent_responses.keys()): dict keys in insertion order
KeysInOrder(agent_responses) ==
    SelectSeq(<<"customer_data", "support">>, LAMBDA n : n \in DOMAIN agent_responses)

\* agent_name.upper()
Upper(agent_name) == IF agent_name = "customer_data" THEN "CUSTOMER_DATA" ELSE "SUPPORT"

\* response['response'] if the payload has one, else json.dumps(response)
ResponseText(response) ==
    IF "response" \in DOMAIN response THEN response.response ELSE "<json.dumps>"

\* responses_text: for each agent of agent_responses, in insertion order, its
\* name in upper case and the text of its response
ResponsesText(agent_responses) ==
    LET names == KeysInOrder(agent_responses)
    IN  [k \in 1..Len(names) |->
            [agent |-> Upper(names[k]), text |-> ResponseText(agent_responses[names[k]])]]

\* variant: the last response with a 'response' is returned
LastAvailable(agent_responses) ==
    LET having == SelectSeq(KeysInOrder(agent_responses),
                            LAMBDA n : "response" \in DOMAIN agent_responses[n])
    IN  IF having # <<>> THEN agent_responses[having[Len(having)]].response
        ELSE "Request processed. Please check the details above."

\* "Return the first available response": the first one with a 'response'
FirstAvailable(agent_responses) ==
    LET having == SelectSeq(KeysInOrder(agent_responses),
                            LAMBDA n : "response" \in DOMAIN agent_responses[n])
    IN  IF having # <<>> THEN agent_responses[having[1]].response
        ELSE "Request processed. Please check the details above."

\* "if not agent_responses: return ..."
Apology == "I apologize, but I couldn't process your request. Please try again."

\* variant: the LLM is asked even when no agent answered
SynthesizeResponseAlwaysAsks(agent_responses, outcome) ==
    [text |-> IF outcome = "answers" THEN "<reply of the LLM>"
              ELSE FirstAvailable(agent_responses),
     prompt |-> ResponsesText(agent_responses), llm_called |-> TRUE]

\* RouterAgent._synthesize_response: the apology when no agent answered; else
\* the LLM's reply to the prompt built from the agents' responses; else (call_llm
\* raised) the first response. text is what is returned, prompt what the LLM
\* was asked with, llm_called whether call_llm was reached
SynthesizeResponse(agent_responses, outcome) ==
    IF DOMAIN agent_responses = {}
    THEN [text |-> Apology, prompt |-> <<>>, llm_called |-> FALSE]
    ELSE [text |-> IF outcome = "answers" THEN "<reply of the LLM>"
                   ELSE FirstAvailable(agent_responses),
          prompt |-> ResponsesText(agent_responses), llm_called |-> TRUE]

\* handle_user_query returns; when it was called by the router's process, the
\* router's handle_message wraps the result and its send_message call returns
Finish(b, q) ==
    LET used   == KeysInOrder(b.queries[q].agent_responses)
        done   == [b EXCEPT !.queries[q].pc = "done", !.queries[q].awaiting = 0,
                            !.queries[q].agents_used = used,
                            !.queries[q].response =
                                [o \in SynthesisOutcomes |->
                                    SynthesizeResponse(b.queries[q].agent_responses, o)]]
        via    == b.queries[q].via
        result == [kind |-> "result",
                   value |-> [agent_responses |-> b.queries[q].agent_responses,
                              agents_used |-> used]]
    IN  IF via = 0 THEN done
        ELSE HandlerCompleted(done, via,
                              HandleMessage("router", b.calls[via].msg, result, done.nextId))

\* variant: the support request never carries the customer data
SupportStageWithoutCustomerData(b, q) ==
    IF b.queries[q].analysis.requires_support
    THEN Dispatch(b, q, "support",
                  [query |-> b.queries[q].query,
                   customer_id |-> DictGet(b.queries[q].analysis, "customer_id",
                                           NoCustomerId),
                   customer_data |-> NonePayload])
    ELSE Finish(b, q)

\* variant: the support stage sends the query back to the router
SupportStageToRouter(b, q) ==
    IF b.queries[q].analysis.requires_support
    THEN Dispatch(b, q, "router", [query |-> b.queries[q].query])
    ELSE Finish(b, q)

\* "Route to Support Agent if needed", then synthesize and return
SupportStage(b, q) ==
    IF b.queries[q].analysis.requires_support
    THEN Dispatch(b, q, "support",
                  [query |-> b.queries[q].query,
                   customer_id |-> DictGet(b.queries[q].analysis, "customer_id",
                                           NoCustomerId),
                   customer_data |-> DictGet(b.queries[q].agent_responses,
                                             "customer_data", NonePayload)])
    ELSE Finish(b, q)

\* "Route to Customer Data Agent if needed"
CustomerStage(b, q) ==
    IF b.queries[q].analysis.requires_customer_data
    THEN Dispatch(b, q, "customer_data",
                  [query |-> b.queries[q].query,
                   customer_id |-> DictGet(b.queries[q].analysis, "customer_id",
                                           NoCustomerId)])
    ELSE SupportStage(b, q)

\* handle_user_query(query, conversation_id) up to its first suspension
HandleUserQuery(b, query, conversation_id, analysis, via) ==
    CustomerStage([b EXCEPT !.queries =
                       Append(@, QueryActivation(query, conversation_id, analysis, via))],
                  Len(b.queries) + 1)

\* RouterAgent.process inside the router's handle_message, for activation i
RouterProcess(b, i, analysis) ==
    IF b.calls[i].msg.type = "query"
    THEN HandleUserQuery(b, b.calls[i].msg.payload.query,
                         b.calls[i].msg.conversation_id, analysis, i)
    ELSE HandlerCompleted(b, i,
             HandleMessage("router", b.calls[i].msg,
                           [kind |-> "result", value |-> [status |-> "processed"]],
                           b.nextId))

\* user requests made so far
Requests ==
    Len(queries) + Cardinality({i \in 1..Len(calls) :
                                   calls[i].msg.recipient = "router"
                                   /\ calls[i].msg.type # "query"})

\* MultiAgentSystem.process_query_async: handle_user_query(query), no conversation id
process_query_async(analysis) ==
    /\ Requests < MaxQueries
    /\ BusBecomes(HandleUserQuery(Bus, "q", NoneStr, analysis, 0))
    /\ UNCHANGED <<handlers, agent_urls, agent_cards, next_port, lastOp, regOps,
                   agents, fetched, db, run,
                   clients, logs, system, threads, ret, lastDirOp>>

\* a message sent to the router over the bus
SendToRouter(type, conversation_id, analysis) ==
    /\ Requests < MaxQueries
    /\ LET sent == SendMessage(Bus, A2AMessage("user", "router", type, [query |-> "q"],
                                               conversation_id, nextId),
                               0, "await", "caller", TRUE)
           i    == Len(sent.calls)
       IN  BusBecomes(IF sent.calls[i].pc = "delivered" /\ sent.calls[i].handler = "router"
                      THEN RouterProcess(sent, i, analysis) ELSE sent)
    /\ UNCHANGED <<handlers, agent_urls, agent_cards, next_port, lastOp, regOps,
                   agents, fetched, db, run,
                   clients, logs, system, threads, ret, lastDirOp>>

\* the customer-data dispatch has returned: collect, then the support stage
CustomerAnswered(q) ==
    /\ queries[q].pc = "customer_data"
    /\ calls[queries[q].awaiting].pc = "done"
    /\ BusBecomes(SupportStage(Collect(Bus, q), q))
    /\ UNCHANGED <<handlers, agent_urls, agent_cards, next_port, lastOp, regOps,
                   agents, fetched, db, run,
                   clients, logs, system, threads, ret, lastDirOp>>

\* the support dispatch has returned: collect, synthesize, return
SupportAnswered(q) ==
    /\ queries[q].pc = "support"
    /\ calls[queries[q].awaiting].pc = "done"
    /\ BusBecomes(Finish(Collect(Bus, q), q))
    /\ UNCHANGED <<handlers, agent_urls, agent_cards, next_port, lastOp, regOps,
                   agents, fetched, db, run,
                   clients, logs, system, threads, ret, lastDirOp>>

\* self.send_to_agent(recipient, msg_type, payload, conversation_id) called by the
\* code of the agent called name
send_to_agent(name, recipient, conversation_id) ==
    /\ SyncActive = {}
    /\ HasRoom(recipient)
    /\ BusBecomes(SendToAgent(Bus, name, recipient, "query", [message |-> "Hello"],
                              conversation_id, 0))
    /\ UNCHANGED <<handlers, agent_urls, agent_cards, next_port, lastOp, regOps,
                   agents, fetched, db, run,
                   clients, logs, system, threads, ret, lastDirOp>>

\* the handler table after RouterAgent(), CustomerDataAgent(), SupportAgent()
SystemHandlers ==
    [n \in {"router"} \cup SpecialistNames |-> IF n = "router" THEN "router" ELSE "agent"]

\* the port given to each of them, in construction order
SystemPorts ==
    [n \in {"router"} \cup SpecialistNames |->
        CASE n = "router" -> BasePort
          [] n = "customer_data" -> BasePort + 1
          [] n = "support" -> BasePort + 2]

----------------------------------------------------------------------------
(* RouterAgent._analyze_query and _fallback_analysis: the query text *)

\* a str is the sequence of its characters
Space == " "

\* the value of an expression that is evaluated once: {e} has one element
Only(values) == CHOOSE v \in values : TRUE

\* statements in sequence: what Rest gives for the value the statement before
\* it has left, which is evaluated once
Then(value, Rest(_)) == Only({Rest(v) : v \in {value}})

Digits == <<"0", "1", "2", "3", "4", "5", "6", "7", "8", "9">>

IsDigit(ch) == \E d \in 1..Len(Digits) : Digits[d] = ch

DigitValue(ch) == (CHOOSE d \in 1..Len(Digits) : Digits[d] = ch) - 1

UpperCase == <<"A", "B", "C", "D", "E", "F", "G", "H", "I", "J", "K", "L", "M",
               "N", "O", "P", "Q", "R", "S", "T", "U", "V", "W", "X", "Y", "Z">>

LowerCase == <<"a", "b", "c", "d", "e", "f", "g", "h", "i", "j", "k", "l", "m",
               "n", "o", "p", "q", "r", "s", "t", "u", "v", "w", "x", "y", "z">>

\* ch.lower()
LowerChar(ch) ==
    IF \E k \in 1..26 : UpperCase[k] = ch
    THEN LowerCase[CHOOSE k \in 1..26 : UpperCase[k] = ch]
    ELSE ch

\* query.lower()
Lower(s) == [k \in 1..Len(s) |-> LowerChar(s[k])]

\* s[p:].startswith(w), p counted from 1
StartsWithAt(s, p, w) ==
    /\ p + Len(w) - 1 <= Len(s)
    /\ SubSeq(s, p, p + Len(w) - 1) = w

\* w in s (the two strings are evaluated once: {e} has one element)
Contains(s, w) ==
    \E str \in {s}, word \in {w} : \E p \in 1..Len(str) : StartsWithAt(str, p, word)

\* any(kw in s for kw in keywords)
AnyIn(s, keywords) ==
    \E str \in {s}, kws \in {keywords} : \E k \in 1..Len(kws) : Contains(str, kws[k])

RECURSIVE SkipSpaces(_, _)
\* \s* : the first position from p on that holds no whitespace
SkipSpaces(s, p) ==
    IF p <= Len(s) /\ s[p] = Space THEN SkipSpaces(s, p + 1) ELSE p

RECURSIVE DigitsEnd(_, _)
\* \d+ is greedy: the position after the run of digits that starts at p
DigitsEnd(s, p) ==
    IF p <= Len(s) /\ IsDigit(s[p]) THEN DigitsEnd(s, p + 1) ELSE p

RECURSIVE IntOf(_)
\* int(digits)
IntOf(digits) ==
    IF digits = <<>> THEN 0
    ELSE 10 * IntOf(SubSeq(digits, 1, Len(digits) - 1)) + DigitValue(digits[Len(digits)])

\* the alternatives of (?:customer|id|#)
IdPrefixes ==
    <<<<"c", "u", "s", "t", "o", "m", "e", "r">>,
      <<"i", "d">>,
      <<"#">>>>

\* the pattern (?:customer|id|#)\s*(\d+) matches at position p
IdMatchAt(s, p) ==
    \E a \in 1..Len(IdPrefixes) :
        /\ StartsWithAt(s, p, IdPrefixes[a])
        /\ LET d == SkipSpaces(s, p + Len(IdPrefixes[a]))
           IN  d <= Len(s) /\ IsDigit(s[d])

\* re.search(...): the leftmost match; int(id_match.group(1)), or None
ExtractCustomerId(s) ==
    IF \E p \in 1..Len(s) : IdMatchAt(s, p)
    THEN LET p == CHOOSE x \in 1..Len(s) :
                      IdMatchAt(s, x) /\ \A y \in 1..(x - 1) : ~IdMatchAt(s, y)
             a == CHOOSE x \in 1..Len(IdPrefixes) : StartsWithAt(s, p, IdPrefixes[x])
             d == SkipSpaces(s, p + Len(IdPrefixes[a]))
         IN  IntOf(SubSeq(s, d, DigitsEnd(s, d) - 1))
    ELSE NoCustomerId

customer_keywords ==
    <<<<"c", "u", "s", "t", "o", "m", "e", "r">>,
      <<"a", "c", "c", "o", "u", "n", "t">>,
      <<"e", "m", "a", "i", "l">>,
      <<"p", "h", "o", "n", "e">>,
      <<"h", "i", "s", "t", "o", "r", "y">>,
      <<"i", "n", "f", "o">>,
      <<"u", "p", "d", "a", "t", "e">>,
      <<"p", "r", "o", "f", "i", "l", "e">>>>

support_keywords ==
    <<<<"t", "i", "c", "k", "e", "t">>,
      <<"s", "u", "p", "p", "o", "r", "t">>,
      <<"i", "s", "s", "u", "e">>,
      <<"p", "r", "o", "b", "l", "e", "m">>,
      <<"h", "e", "l", "p">>,
      <<"r", "e", "f", "u", "n", "d">>,
      <<"c", "o", "m", "p", "l", "a", "i", "n", "t">>,
      <<"u", "r", "g", "e", "n", "t">>>>

\* variant: without "if not requires_customer and not requires_support"
FallbackAnalysisNoDefault(query) ==
    LET query_lower == Lower(query)
        customer_id == ExtractCustomerId(query_lower)
    IN  [type |-> "dict", analysis |-> "Fallback keyword-based analysis",
         requires_customer_data |->
             AnyIn(query_lower, customer_keywords) \/ customer_id # NoCustomerId,
         requires_support |-> AnyIn(query_lower, support_keywords),
         customer_id |-> customer_id, routing_plan |-> "[]"]

\* RouterAgent._fallback_analysis(query)
FallbackAnalysis(query) ==
    LET query_lower == Lower(query)
        customer_id == ExtractCustomerId(query_lower)
        requires_customer == AnyIn(query_lower, customer_keywords)
                                 \/ customer_id # NoCustomerId
        requires_support == AnyIn(query_lower, support_keywords)
    IN  [type |-> "dict", analysis |-> "Fallback keyword-based analysis",
         requires_customer_data |->
             IF ~requires_customer /\ ~requires_support THEN TRUE ELSE requires_customer,
         requires_support |-> requires_support,
         customer_id |-> customer_id, routing_plan |-> "[]"]

\* the words the queries are made of
Vocabulary ==
    <<<<"G", "e", "t">>,
      <<"c", "u", "s", "t", "o", "m", "e", "r">>,
      <<"i", "n", "f", "o", "r", "m", "a", "t", "i", "o", "n">>,
      <<"f", "o", "r">>,
      <<"I", "D">>,
      <<"5">>,
      <<"h", "e", "l", "p">>,
      <<"4", "2">>,
      <<"p", "a", "i", "d">>,
      <<"#", "7">>>>

MaxWords == 2

RECURSIVE Join(_)
\* " ".join(words)
Join(words) ==
    IF Len(words) = 1 THEN words[1]
    ELSE Join(SubSeq(words, 1, Len(words) - 1)) \o <<Space>> \o words[Len(words)]

\* "Get customer information for ID 5"
ExampleQuery == Join(<<Vocabulary[1], Vocabulary[2], Vocabulary[3], Vocabulary[4],
                       Vocabulary[5], Vocabulary[6]>>)

\* the query texts: up to MaxWords words, and the example query of main.py
Queries ==
    {ExampleQuery}
    \cup UNION {{Join([k \in 1..n |-> Vocabulary[w[k]]]) :
                    w \in [1..n -> 1..Len(Vocabulary)]} : n \in 1..MaxWords}

\* how a routing_plan can come back from json.loads: a list of objects (maybe
\* empty), null, a list of strings
RoutingPlans == {"[]", "[{...}]", "null", "[\"...\"]"}

\* [r for r in analysis.get("routing_plan", []) if r.get("agent") == ...] raises
\* TypeError for None and AttributeError for an entry that is no dict
TasksRaise(routing_plan) == routing_plan \notin {"[]", "[{...}]"}

\* what json.loads can return for the text of the LLM: an object with the fields
\* of the prompt, or a value of another JSON type
JsonValues ==
    [type : {"dict"}, analysis : {"llm"}, requires_customer_data : BOOLEAN,
     requires_support : BOOLEAN, customer_id : {NoCustomerId, 5},
     routing_plan : RoutingPlans]
    \cup {[type |-> t] : t \in {"list", "NoneType", "int", "str"}}

\* what the analysis call of the LLM does: call_llm raises, the text is not JSON
\* (json.loads raises), or json.loads returns a value
LLMOutcomes ==
    {[kind |-> "raises"], [kind |-> "text"]}
    \cup {[kind |-> "json", value |-> v] : v \in JsonValues}

\* the outcomes of the analysis call for which _analyze_query falls back
FallbackOutcomes == {[kind |-> "raises"], [kind |-> "text"]}

\* variant: the except branch returns no analysis
AnalyzeQueryNoFallback(query, llm) ==
    IF llm.kind = "json" THEN llm.value ELSE [type |-> "NoneType"]

\* RouterAgent._analyze_query: json.loads(response.strip()), and the keyword
\* fallback for whatever is raised inside the try
AnalyzeQuery(query, llm) ==
    IF llm.kind = "json" THEN llm.value ELSE FallbackAnalysis(query)

\* handle_user_query uses the analysis outside any try: analysis.get raises
\* AttributeError unless the analysis is a dict, and the tasks of a dispatch
\* raise for a routing_plan that is no list of dicts
UsingAnalysisRaises(analysis) ==
    \/ analysis.type # "dict"
    \/ /\ analysis.requires_customer_data \/ analysis.requires_support
       /\ TasksRaise(analysis.routing_plan)

\* handle_user_query ends with an exception before anything was sent
RaisedQuery(b, query, conversation_id, analysis, via) ==
    [b EXCEPT !.queries =
        Append(@, [QueryActivation(query, conversation_id, analysis, via)
                       EXCEPT !.pc = "raised"])]

\* RouterAgent.handle_user_query(query, conversation_id) called directly, as
\* process_query_async does, up to its first suspension
handle_user_query(query, conversation_id, llm) ==
    /\ queries = <<>>
    /\ LET analysis == AnalyzeQuery(query, llm)
       IN  BusBecomes(IF UsingAnalysisRaises(analysis)
                      THEN RaisedQuery(Bus, query, conversation_id, analysis, 0)
                      ELSE HandleUserQuery(Bus, query, conversation_id, analysis, 0))
    /\ UNCHANGED <<handlers, agent_urls, agent_cards, next_port, lastOp, regOps,
                   agents, fetched, db, run,
                   clients, logs, system, threads, ret, lastDirOp>>

----------------------------------------------------------------------------
\* Conversation ids are opaque strings chosen by the caller and only ever compared
\* for equality, so the callers' first conversation is named "conv-1"
ConvChoices ==
    IF \E i \in 1..Len(calls) : calls[i].msg.conversation_id = "conv-1"
    THEN ConvIds ELSE {"conv-1"}

\* the handlers registered where send_message_sync is exercised
SyncHandlerKinds == {"echo", "agent", "chain"}

Init ==
    /\ handlers = EmptyDict
    /\ agent_urls = EmptyDict
    /\ agent_cards = EmptyDict
    /\ next_port = BasePort
    /\ history = <<>>
    /\ calls = <<>>
    /\ nextId = 1
    /\ lastOp = EmptyDict
    /\ regOps = 0
    /\ invoked = <<>>
    /\ queries = <<>>
    /\ agents = EmptyDict
    /\ fetched = NotFetched
    /\ db = SampleDb
    /\ run = NoRun
    /\ clients = EmptyDict
    /\ logs = EmptyDict
    /\ system = NoSystem
    /\ threads = NoThreads
    /\ ret = NoReturn
    /\ lastDirOp = EmptyDict

Next ==
    \/ \E n \in AgentNames, h \in HandlerKinds : register_handler(n, h)
    \/ \E n \in AgentNames : unregister_handler(n)
    \/ \E r \in Recipients, c \in ConvChoices : Send(r, c)
    \/ \E i \in 1..Len(calls), api \in {"await", "sync"} : ChainForwards(i, api)
    \/ \E i \in 1..Len(calls) : ChainReturns(i)
    \/ \E i \in 1..Len(calls), o \in ProcessOutcomes : AgentHandles(i, o)

Spec == Init /\ [][Next]_vars

NextSync ==
    \/ \E n \in AgentNames, h \in SyncHandlerKinds : register_handler(n, h)
    \/ \E n \in AgentNames : unregister_handler(n)
    \/ \E r \in Recipients : Send(r, "conv-1")
    \/ \E r \in Recipients, l \in BOOLEAN : SendSync(r, "conv-1", l)
    \/ \E i \in 1..Len(calls), api \in {"await", "sync"} : ChainForwards(i, api)
    \/ \E i \in 1..Len(calls) : ChainReturns(i)
    \/ \E i \in 1..Len(calls), o \in ProcessOutcomes : AgentHandles(i, o)

SpecSync == Init /\ [][NextSync]_vars

\* the descriptors the three constructors hand to the Directory
SystemAgents ==
    [n \in {"router"} \cup SpecialistNames |->
        CASE n = "router" ->
                AgentInfo(n, "Orchestrates queries and routes to specialist agents",
                          <<"routing", "orchestration", "synthesis">>)
          [] n = "customer_data" ->
                AgentInfo(n, "Handles customer information lookup and management",
                          <<"customer_lookup", "customer_update", "customer_history">>)
          [] n = "support" ->
                AgentInfo(n, "Handles support tickets and customer issue resolution",
                          <<"ticket_creation", "ticket_management", "escalation",
                            "support">>)]

\* the logs of the three agents after their construction
SystemLogs == [n \in DOMAIN SystemHandlers |-> <<RegisteredEntry(n)>>]

\* the state after MultiAgentSystem.initialize()
InitRouter ==
    /\ handlers = SystemHandlers
    /\ agent_urls = SystemPorts
    /\ agent_cards = [n \in DOMAIN SystemPorts |-> AgentCard(n, SystemPorts[n])]
    /\ next_port = BasePort + 3
    /\ history = <<>>
    /\ calls = <<>>
    /\ nextId = 1
    /\ lastOp = [n \in DOMAIN SystemHandlers |->
                    [op |-> "register", handler |-> SystemHandlers[n]]]
    /\ regOps = 0
    /\ invoked = <<>>
    /\ queries = <<>>
    /\ agents = SystemAgents
    /\ fetched = NotFetched
    /\ db = SampleDb
    /\ run = NoRun
    /\ clients = EmptyDict
    /\ logs = SystemLogs
    /\ system = InitializedSystem
    /\ threads = NoThreads
    /\ ret = NoReturn
    /\ lastDirOp = [n \in DOMAIN SystemAgents |->
                      [op |-> "register", info |-> SystemAgents[n]]]

NextRouter ==
    \/ \E n \in SpecialistNames : unregister_handler(n)
    \/ \E a \in Analyses : process_query_async(a)
    \/ \E t \in {"query", "task"}, a \in Analyses : SendToRouter(t, "conv-1", a)
    \/ \E q \in 1..Len(queries) : CustomerAnswered(q)
    \/ \E q \in 1..Len(queries) : SupportAnswered(q)
    \/ \E i \in 1..Len(calls), o \in ProcessOutcomes : AgentHandles(i, o)

SpecRouter == InitRouter /\ [][NextRouter]_vars

----------------------------------------------------------------------------
(* The Bus's four tables: register_handler, unregister_handler and get_client *)

\* get_client of a name without a URL: None
NoClient == [base_url |-> 0]

\* A2AClient(base_url=self._agent_urls[agent_name])
A2AClient(base_url) == [base_url |-> base_url]

\* variant: a client is made for any name, registered or not
ClientsAfterGetAnyName(cl, urls, agent_name) ==
    IF agent_name \in DOMAIN cl THEN cl
    ELSE DictSet(cl, agent_name, A2AClient(DictGet(urls, agent_name, BasePort)))

\* A2AProtocol.get_client: the client table after the call
ClientsAfterGet(cl, urls, agent_name) ==
    IF agent_name \notin DOMAIN urls THEN cl
    ELSE IF agent_name \notin DOMAIN cl
         THEN DictSet(cl, agent_name, A2AClient(urls[agent_name]))
         ELSE cl

\* A2AProtocol.get_client(agent_name)
get_client(agent_name) ==
    /\ \E cl \in {ClientsAfterGet(clients, agent_urls, agent_name)} :
          /\ clients' = cl
          /\ ret' = [op |-> "get_client", name |-> agent_name,
                     value |-> DictGet(cl, agent_name, NoClient)]
    /\ UNCHANGED <<handlers, agent_urls, agent_cards, next_port, history, calls,
                   nextId, lastOp, regOps, invoked, queries, agents, fetched, db, run,
                   logs, system, threads, lastDirOp>>

\* the names the Bus's tables are changed for
BusNames == SpecialistNames \cup {"agent_a"}

NextBus ==
    \/ \E n \in BusNames : register_handler(n, "echo")
    \/ \E n \in BusNames : unregister_handler(n)
    \/ \E n \in BusNames : get_client(n)

\* the initialized system's Bus, with names added and removed and clients asked for
SpecBus == InitRouter /\ [][NextBus]_vars

\* agents are constructed, answer, and are removed from the bus or the Directory
NextAgents ==
    \/ \E n \in AgentNames, d \in AgentDescriptions :
          BaseAgentInit(n, d.description, d.capabilities)
    \/ \E n \in AgentNames : registry_unregister(n)
    \/ \E n \in AgentNames : register_handler(n, "echo")
    \/ \E n \in AgentNames : unregister_handler(n)
    \/ \E r \in AgentNames : Send(r, "conv-1")
    \/ \E i \in 1..Len(calls), o \in ProcessOutcomes : AgentHandles(i, o)

SpecAgents == Init /\ [][NextAgents]_vars

----------------------------------------------------------------------------
(* The Directory on its own: register, unregister and its three queries *)

\* the capabilities callers look for
Capabilities == {"routing", "support", "escalation", "billing"}

\* x in seq
InSeq(x, seq) == \E i \in 1..Len(seq) : seq[i] = x

\* AgentRegistry.get: self._agents.get(name)
Get(ag, name) == DictGet(ag, name, NoInfo)

\* AgentRegistry.list_agents: list(self._agents.values()), as the set of its members
ListAgents(ag) == {ag[n] : n \in DOMAIN ag}

\* AgentRegistry.find_by_capability: the agents with capability in agent.capabilities
FindByCapability(ag, capability) ==
    {info \in ListAgents(ag) : InSeq(capability, info.capabilities)}

\* BaseAgent.find_agent_for_capability: the names it can return (agents[0].name)
FindAgentForCapability(ag, capability) ==
    {info.name : info \in FindByCapability(ag, capability)}

\* AgentRegistry.register(name, description, capabilities): returns the descriptor
registry_register(name, description, capabilities) ==
    /\ agents' = DirectoryAfterRegister(agents, name, description, capabilities)
    /\ ret' = [op |-> "register", name |-> name, raised |-> FALSE,
               value |-> AgentInfo(name, description, capabilities), before |-> agents]
    /\ lastDirOp' = DictSet(lastDirOp, name,
                            [op |-> "register",
                             info |-> AgentInfo(name, description, capabilities)])
    /\ UNCHANGED <<handlers, agent_urls, agent_cards, next_port, history, calls,
                   nextId, lastOp, regOps, invoked, queries, fetched, db, run,
                   clients, logs, system, threads>>

\* AgentRegistry.get(name)
registry_get(name) ==
    /\ ret' = [op |-> "get", name |-> name, value |-> Get(agents, name), before |-> agents]
    /\ UNCHANGED <<handlers, agent_urls, agent_cards, next_port, history, calls,
                   nextId, lastOp, regOps, invoked, queries, agents, fetched, db, run,
                   clients, logs, system, threads, lastDirOp>>

\* AgentRegistry.list_agents()
registry_list_agents ==
    /\ ret' = [op |-> "list_agents", value |-> ListAgents(agents), before |-> agents]
    /\ UNCHANGED <<handlers, agent_urls, agent_cards, next_port, history, calls,
                   nextId, lastOp, regOps, invoked, queries, agents, fetched, db, run,
                   clients, logs, system, threads, lastDirOp>>

\* AgentRegistry.find_by_capability(capability)
registry_find_by_capability(capability) ==
    /\ ret' = [op |-> "find_by_capability", capability |-> capability,
               value |-> FindByCapability(agents, capability), before |-> agents]
    /\ UNCHANGED <<handlers, agent_urls, agent_cards, next_port, history, calls,
                   nextId, lastOp, regOps, invoked, queries, agents, fetched, db, run,
                   clients, logs, system, threads, lastDirOp>>

NextDirectory ==
    \/ \E n \in AgentNames, d \in AgentDescriptions :
          registry_register(n, d.description, d.capabilities)
    \/ \E n \in AgentNames : registry_unregister(n)
    \/ \E n \in AgentNames : registry_get(n)
    \/ registry_list_agents
    \/ \E c \in Capabilities : registry_find_by_capability(c)

SpecDirectory == Init /\ [][NextDirectory]_vars

----------------------------------------------------------------------------
(* A2AMessage.to_dict and A2AMessage.from_dict *)

\* class MessageType(str, Enum): member name -> value
MessageTypeValues ==
    [QUERY |-> "query", RESPONSE |-> "response", DATA_REQUEST |-> "data_request",
     DATA_RESPONSE |-> "data_response", TASK |-> "task", RESULT |-> "result",
     ERROR |-> "error", HANDOFF |-> "handoff"]

\* a member of the enum, as opposed to the plain string that goes over the wire
Member(name) == [kind |-> "MessageType", text |-> name]

\* a plain str
PlainStr(text) == [kind |-> "str", text |-> text]

\* isinstance(x, MessageType)
IsMessageType(x) == x.kind = "MessageType"

\* variant: the member's name is written instead of its value
TypeName(member) == PlainStr(member.text)

\* self.type.value
TypeValue(member) == PlainStr(MessageTypeValues[member.text])

\* MessageType(msg_type), with ValueError caught: msg_type = MessageType.QUERY
ParseType(text) ==
    IF \E name \in DOMAIN MessageTypeValues : MessageTypeValues[name] = text
    THEN Member(CHOOSE name \in DOMAIN MessageTypeValues : MessageTypeValues[name] = text)
    ELSE Member("QUERY")

\* the dataclass A2AMessage with all of its eight fields
Message(sender, recipient, type, payload, conversation_id, message_id, timestamp, metadata) ==
    [sender |-> sender, recipient |-> recipient, type |-> type, payload |-> payload,
     conversation_id |-> conversation_id, message_id |-> message_id,
     timestamp |-> timestamp, metadata |-> metadata]

\* A2AMessage.to_dict
ToDict(m) ==
    [sender |-> m.sender, recipient |-> m.recipient,
     type |-> IF IsMessageType(m.type) THEN TypeValue(m.type) ELSE m.type,
     payload |-> m.payload, conversation_id |-> m.conversation_id,
     message_id |-> m.message_id, timestamp |-> m.timestamp, metadata |-> m.metadata]

\* A2AMessage.from_dict; fresh holds what uuid4() and now() give when asked
FromDict(data, fresh) ==
    Then(DictGet(data, "type", Member("QUERY")), LAMBDA msg_type :
        Message(data["sender"], data["recipient"],
                IF msg_type.kind = "str" THEN ParseType(msg_type.text) ELSE msg_type,
                DictGet(data, "payload", EmptyDict),
                DictGet(data, "conversation_id", fresh.conversation_id),
                DictGet(data, "message_id", fresh.message_id),
                DictGet(data, "timestamp", fresh.timestamp),
                DictGet(data, "metadata", EmptyDict)))

\* the messages that are serialized: every sender/type/payload/conversation mix
Messages ==
    {Message(s, "agent_b", Member(t), p, c, "msg-1", "2024-01-01T00:00:00", md) :
        s \in {"agent_a", "user"}, t \in DOMAIN MessageTypeValues,
        p \in {[result |-> "success"], EmptyDict},
        c \in {"conv-123", ""}, md \in {EmptyDict, [trace |-> "on"]}}

\* dicts written by hand, as a peer or a test writes them
HandWritten ==
    {[sender |-> "agent_x", recipient |-> "agent_y", type |-> PlainStr("query"),
      payload |-> [question |-> "What is the status?"], conversation_id |-> "conv-456"],
     [sender |-> "agent_x", recipient |-> "agent_y", type |-> PlainStr("bogus"),
      payload |-> EmptyDict],
     [sender |-> "agent_x", recipient |-> "agent_y"]}

\* what uuid4() and datetime.now() give
FreshValues ==
    {[conversation_id |-> "uuid-1", message_id |-> "uuid-2",
      timestamp |-> "2024-01-02T00:00:00"]}

\* m.to_dict()
to_dict(m) ==
    /\ ret' = [op |-> "to_dict", message |-> m, value |-> ToDict(m)]
    /\ UNCHANGED <<handlers, agent_urls, agent_cards, next_port, history, calls,
                   nextId, lastOp, regOps, invoked, queries, agents, fetched, db, run,
                   clients, logs, system, threads, lastDirOp>>

\* A2AMessage.from_dict(data)
from_dict(data, fresh) ==
    /\ ret' = [op |-> "from_dict", data |-> data, value |-> FromDict(data, fresh)]
    /\ UNCHANGED <<handlers, agent_urls, agent_cards, next_port, history, calls,
                   nextId, lastOp, regOps, invoked, queries, agents, fetched, db, run,
                   clients, logs, system, threads, lastDirOp>>

NextMessages ==
    \/ \E m \in Messages : to_dict(m)
    \/ \E data \in {ToDict(m) : m \in Messages} \cup HandWritten, fresh \in FreshValues :
          from_dict(data, fresh)

SpecMessages == Init /\ [][NextMessages]_vars

\* the state after a test's setup: a fresh bus with one echo handler registered
InitHistory ==
    /\ handlers = [n \in {"agent_a"} |-> "echo"]
    /\ agent_urls = [n \in {"agent_a"} |-> BasePort]
    /\ agent_cards = [n \in {"agent_a"} |-> AgentCard(n, BasePort)]
    /\ next_port = BasePort + 1
    /\ history = <<>>
    /\ calls = <<>>
    /\ nextId = 1
    /\ lastOp = [n \in {"agent_a"} |-> [op |-> "register", handler |-> "echo"]]
    /\ regOps = 1
    /\ invoked = <<>>
    /\ queries = <<>>
    /\ agents = EmptyDict
    /\ fetched = NotFetched
    /\ db = SampleDb
    /\ run = NoRun
    /\ clients = EmptyDict
    /\ logs = EmptyDict
    /\ system = NoSystem
    /\ threads = NoThreads
    /\ ret = NoReturn
    /\ lastDirOp = EmptyDict

\* sends by callers and by agents, with the history read and cleared in between
NextHistory ==
    \/ \E r \in {"agent_a", "ghost"}, c \in ConvChoices : Send(r, c)
    \/ \E c \in {NoneStr, "conv-2"} : send_to_agent("agent_a", "agent_a", c)
    \/ \E c \in HistoryArgs : get_message_history(c)
    \/ clear_history

SpecHistory == InitHistory /\ [][NextHistory]_vars

\* the calls made: every query text with an LLM whose analysis is not used (the
\* text decides), and the example query with every outcome of the analysis call
QueryInputs ==
    {<<query, llm>> : query \in Queries, llm \in FallbackOutcomes}
    \cup {<<ExampleQuery, llm>> : llm \in LLMOutcomes}

\* one user query, given as text, through the initialized system
NextQuery ==
    \/ \E in \in QueryInputs : handle_user_query(in[1], NoneStr, in[2])
    \/ \E n \in SpecialistNames : unregister_handler(n)
    \/ \E q \in 1..Len(queries) : CustomerAnswered(q)
    \/ \E q \in 1..Len(queries) : SupportAnswered(q)
    \/ \E i \in 1..Len(calls), o \in ProcessOutcomes : AgentHandles(i, o)

SpecQuery == InitRouter /\ [][NextQuery]_vars

----------------------------------------------------------------------------
(* The MCP server's tools (src/src/mcp/mcp_server.py) over the tables, and *)
(* MCPClient.call_tool (src/src/mcp/mcp_client.py)                         *)

\* the characters of a str literal
Chars(str) == [k \in 1..Len(str) |-> SubSeq(str, k, k)]

RECURSIVE Str(_)
\* "".join(chars)
Str(chars) ==
    IF chars = <<>> THEN ""
    ELSE IF Len(chars) = 1 THEN chars[1]
    ELSE Str(SubSeq(chars, 1, Len(chars) \div 2))
             \o Str(SubSeq(chars, Len(chars) \div 2 + 1, Len(chars)))

\* list(reversed(rows))
Rev(rows) == [k \in 1..Len(rows) |-> rows[Len(rows) + 1 - k]]

\* LIMIT ?
Limit(rows, limit) == IF Len(rows) <= limit THEN rows ELSE SubSeq(rows, 1, limit)

\* the rows of customers, in the order of their ids
RECURSIVE CustomerRows(_, _)
CustomerRows(customers, ids) ==
    IF ids = {} THEN <<>>
    ELSE LET least == CHOOSE i \in ids : \A j \in ids : i <= j
         IN  <<customers[least]>> \o CustomerRows(customers, ids \ {least})

\* f"Customer with ID {customer_id} not found"
NotFound(customer_id) ==
    [success |-> FALSE,
     error |-> "Customer with ID " \o ToString(customer_id) \o " not found"]

\* a tool's result paired with the tables it leaves
Served(result, d) == [result |-> result, db |-> d]

\* get_customer(customer_id)
GetCustomer(d, args) ==
    Served(IF args.customer_id \in DOMAIN d.customers
           THEN [success |-> TRUE, data |-> d.customers[args.customer_id]]
           ELSE NotFound(args.customer_id), d)

\* list_customers(status, limit)
ListCustomers(d, args) ==
    LET all  == CustomerRows(d.customers, DOMAIN d.customers)
        rows == Limit(IF "status" \in DOMAIN args
                      THEN SelectSeq(all, LAMBDA r : r.status = args.status)
                      ELSE all, args.limit)
    IN  Served([success |-> TRUE, data |-> rows, count |-> Len(rows)], d)

\* update_customer(customer_id, name, email, phone, status): UPDATE customers SET
\* the given fields (updated_at, a timestamp, is left out of the rows)
UpdateCustomer(d, args) ==
    LET update_fields == DOMAIN args \ {"customer_id"}
    IN  IF update_fields = {}
        THEN Served([success |-> FALSE,
                     error |-> "No fields to update. Provide at least one of: name, email, phone, status"],
                    d)
        ELSE IF args.customer_id \notin DOMAIN d.customers
        THEN Served(NotFound(args.customer_id), d)
        ELSE LET old == d.customers[args.customer_id]
                 row == [k \in DOMAIN old |->
                            IF k \in update_fields THEN args[k] ELSE old[k]]
             IN  Served([success |-> TRUE, message |-> "Customer updated successfully",
                         data |-> row],
                        [d EXCEPT !.customers[args.customer_id] = row])

\* variant: the priority is not looked at
CreateTicketAnyPriority(d, args) ==
    IF args.customer_id \notin DOMAIN d.customers
    THEN Served(NotFound(args.customer_id), d)
    ELSE LET row == TicketRow(Len(d.tickets) + 1, args.customer_id, args.issue,
                              "open", args.priority)
         IN  Served([success |-> TRUE, message |-> "Ticket created successfully",
                     data |-> row],
                    [d EXCEPT !.tickets = Append(@, row)])

\* create_ticket(customer_id, issue, priority): INSERT INTO tickets, status 'open'
CreateTicket(d, args) ==
    IF args.priority \notin {"low", "medium", "high"}
    THEN Served([success |-> FALSE,
                 error |-> "Priority must be 'low', 'medium', or 'high'"], d)
    ELSE IF args.customer_id \notin DOMAIN d.customers
    THEN Served(NotFound(args.customer_id), d)
    ELSE LET row == TicketRow(Len(d.tickets) + 1, args.customer_id, args.issue,
                              "open", args.priority)
         IN  Served([success |-> TRUE, message |-> "Ticket created successfully",
                     data |-> row],
                    [d EXCEPT !.tickets = Append(@, row)])

\* get_customer_history(customer_id): the customer and the customer's tickets,
\* the newest first
GetCustomerHistory(d, args) ==
    IF args.customer_id \notin DOMAIN d.customers
    THEN Served(NotFound(args.customer_id), d)
    ELSE LET tickets == Rev(SelectSeq(d.tickets,
                                      LAMBDA t : t.customer_id = args.customer_id))
         IN  Served([success |-> TRUE, customer |-> d.customers[args.customer_id],
                     tickets |-> tickets, ticket_count |-> Len(tickets)], d)

\* search_customers(query, limit): name LIKE %query% OR email LIKE %query%
\* (LIKE does not distinguish the case of ASCII letters)
SearchCustomers(d, args) ==
    LET term == Lower(Chars(args.query))
        rows == Limit(SelectSeq(CustomerRows(d.customers, DOMAIN d.customers),
                                LAMBDA r : \/ term = <<>>
                                           \/ Contains(Lower(Chars(r.name)), term)
                                           \/ Contains(Lower(Chars(r.email)), term)),
                      args.limit)
    IN  Served([success |-> TRUE, data |-> rows, count |-> Len(rows),
                query |-> args.query], d)

\* get_open_tickets(limit): the open tickets with the customer's name and
\* email, by priority and then the newest first
GetOpenTickets(d, args) ==
    LET open == Rev(SelectSeq(d.tickets,
                              LAMBDA t : /\ t.status = "open"
                                         /\ t.customer_id \in DOMAIN d.customers))
        of(p) == SelectSeq(open, LAMBDA t : t.priority = p)
        in_order == of("high") \o of("medium") \o of("low")
        joined == [k \in 1..Len(in_order) |->
                      [id |-> in_order[k].id, customer_id |-> in_order[k].customer_id,
                       issue |-> in_order[k].issue, status |-> in_order[k].status,
                       priority |-> in_order[k].priority,
                       customer_name |-> d.customers[in_order[k].customer_id].name,
                       customer_email |-> d.customers[in_order[k].customer_id].email]]
        rows == Limit(joined, args.limit)
    IN  Served([success |-> TRUE, data |-> rows, count |-> Len(rows)], d)

\* the tools the server registers with @mcp.tool()
ToolNames ==
    {"get_customer", "list_customers", "update_customer", "create_ticket",
     "get_customer_history", "search_customers", "get_open_tickets"}

\* the body of the tool called name
Tool(name, d, args) ==
    CASE name = "get_customer" -> GetCustomer(d, args)
      [] name = "list_customers" -> ListCustomers(d, args)
      [] name = "update_customer" -> UpdateCustomer(d, args)
      [] name = "create_ticket" -> CreateTicket(d, args)
      [] name = "get_customer_history" -> GetCustomerHistory(d, args)
      [] name = "search_customers" -> SearchCustomers(d, args)
      [] name = "get_open_tickets" -> GetOpenTickets(d, args)

\* how a call of a tool can end: the body returns its result; the body's
\* "except Exception" returns a result flagged unsuccessful; the result comes
\* back with isError (MCPToolError is raised); the session fails (the SDK raises)
ToolModes == {"served", "flagged", "tool_error", "protocol_error"}

\* str(e) of what sqlite3 raised inside a tool body
DatabaseFailure == "database is locked"

\* the text of a result that comes back with isError
ToolFailure == "Error executing tool"

\* str(e) of what the session raised
ProtocolFailure == "MCP Error -32000: Connection closed"

\* f"Tool '{tool_name}' failed: {message}"
MCPToolError(tool_name, message) == "Tool '" \o tool_name \o "' failed: " \o message

\* MCPClient.call_tool(name, arguments) when the call ends as mode says: what
\* the caller gets (a value or an exception) and the tables afterwards
CallTool(d, name, args, mode) ==
    CASE mode = "served" ->
            Then(Tool(name, d, args), LAMBDA served :
                 [raised |-> FALSE, value |-> served.result, text |-> "",
                  db |-> served.db])
      [] mode = "flagged" ->
            [raised |-> FALSE, value |-> [success |-> FALSE, error |-> DatabaseFailure],
             text |-> "", db |-> d]
      [] mode = "tool_error" ->
            [raised |-> TRUE, value |-> NonePayload,
             text |-> MCPToolError(name, ToolFailure), db |-> d]
      [] mode = "protocol_error" ->
            [raised |-> TRUE, value |-> NonePayload, text |-> ProtocolFailure, db |-> d]

----------------------------------------------------------------------------
(* The specialists' runs: what a run of process has done so far *)

\* the outcomes of the tool calls during one run of process, per tool, for an
\* agent that calls the tools used: every call is served, no call gets through,
\* or the calls of one tool end in one of the other ways
ToolEnvs(used) ==
    {[t \in ToolNames |-> "served"], [t \in ToolNames |-> "protocol_error"]}
    \cup {[t \in ToolNames |-> IF t = failing THEN mode ELSE "served"] :
             failing \in used, mode \in ToolModes \ {"served"}}

\* the tools SupportAgent.process calls
SupportTools == {"create_ticket", "get_customer_history"}

\* the tools CustomerDataAgent.process calls
CustomerTools == ToolNames \ {"create_ticket"}

\* what the summary call of the LLM does
SummaryOutcomes == {"answers", "raises"}

\* bool(customer_id): None and 0 are falsy
IdTruthy(customer_id) == customer_id \notin {NoCustomerId, 0}

\* the locals of process at its start: the tables, the tool calls made, the
\* structured bag, the errors list, the analysis (support) and the last result
Started(d, analysis) ==
    [db |-> d, tool_calls |-> <<>>, data |-> EmptyDict, errors |-> <<>>,
     analysis |-> analysis, classified |-> analysis,
     last |-> [raised |-> FALSE, value |-> NonePayload, text |-> ""]]

\* self.mcp_client.<name>(...) with the arguments args
Call(st, name, args, tools) ==
    Then(CallTool(st.db, name, args, tools[name]), LAMBDA r :
         [st EXCEPT !.db = r.db,
                    !.tool_calls = Append(@, [tool |-> name, args |-> args,
                                              mode |-> tools[name]]),
                    !.last = [raised |-> r.raised, value |-> r.value, text |-> r.text]])

----------------------------------------------------------------------------
(* SupportAgent (src/src/agents/support_agent.py) *)

high_priority_keywords ==
    <<Chars("urgent"), Chars("immediately"), Chars("asap"), Chars("critical"),
      Chars("emergency"), Chars("refund"), Chars("charged twice"),
      Chars("billing error")>>

low_priority_keywords ==
    <<Chars("question"), Chars("wondering"), Chars("curious"),
      Chars("when you have time")>>

billing_keywords ==
    <<Chars("billing"), Chars("charge"), Chars("payment"), Chars("refund"),
      Chars("invoice")>>

account_keywords ==
    <<Chars("account"), Chars("upgrade"), Chars("downgrade"), Chars("subscription")>>

technical_keywords ==
    <<Chars("bug"), Chars("error"), Chars("not working"), Chars("broken"),
      Chars("issue")>>

complaint_keywords ==
    <<Chars("complaint"), Chars("unhappy"), Chars("frustrated"),
      Chars("disappointed")>>

explicit_ticket_keywords ==
    <<Chars("create ticket"), Chars("open ticket"), Chars("log issue"),
      Chars("report")>>

\* query[:200] if len(query) > 200 else query
IssueSummary(query) == IF Len(query) > 200 THEN SubSeq(query, 1, 200) ELSE query

\* "Default analysis"
DefaultAnalysis(query) ==
    [needs_ticket |-> FALSE, priority |-> "medium", category |-> "general",
     escalation_needed |-> FALSE, escalation_reason |-> NoneStr,
     issue_summary |-> Str(IssueSummary(query))]

\* the if/elif chain "Detect priority"
DetectPriority(analysis, query_lower) ==
    IF AnyIn(query_lower, high_priority_keywords)
    THEN [analysis EXCEPT !.priority = "high", !.needs_ticket = TRUE]
    ELSE IF AnyIn(query_lower, low_priority_keywords)
    THEN [analysis EXCEPT !.priority = "low"]
    ELSE analysis

\* variant: the account branch asks for a ticket too
DetectCategoryAccountTickets(analysis, query_lower) ==
    IF AnyIn(query_lower, billing_keywords)
    THEN [analysis EXCEPT !.category = "billing", !.needs_ticket = TRUE]
    ELSE IF AnyIn(query_lower, account_keywords)
    THEN [analysis EXCEPT !.category = "account", !.needs_ticket = TRUE]
    ELSE IF AnyIn(query_lower, technical_keywords)
    THEN [analysis EXCEPT !.category = "technical", !.needs_ticket = TRUE]
    ELSE IF AnyIn(query_lower, complaint_keywords)
    THEN [analysis EXCEPT !.category = "complaint", !.needs_ticket = TRUE,
                          !.escalation_needed = TRUE,
                          !.escalation_reason = "Customer complaint detected"]
    ELSE analysis

\* the if/elif chain "Detect category"
DetectCategory(analysis, query_lower) ==
    IF AnyIn(query_lower, billing_keywords)
    THEN [analysis EXCEPT !.category = "billing", !.needs_ticket = TRUE]
    ELSE IF AnyIn(query_lower, account_keywords)
    THEN [analysis EXCEPT !.category = "account"]
    ELSE IF AnyIn(query_lower, technical_keywords)
    THEN [analysis EXCEPT !.category = "technical", !.needs_ticket = TRUE]
    ELSE IF AnyIn(query_lower, complaint_keywords)
    THEN [analysis EXCEPT !.category = "complaint", !.needs_ticket = TRUE,
                          !.escalation_needed = TRUE,
                          !.escalation_reason = "Customer complaint detected"]
    ELSE analysis

\* "Check if ticket creation is explicitly requested"
DetectExplicitRequest(analysis, query_lower) ==
    IF AnyIn(query_lower, explicit_ticket_keywords)
    THEN [analysis EXCEPT !.needs_ticket = TRUE]
    ELSE analysis

\* SupportAgent._analyze_support_request(query, customer_data)
AnalyzeSupportRequest(query, customer_data) ==
    LET query_lower == Lower(query)
    IN  DetectExplicitRequest(
            DetectCategory(DetectPriority(DefaultAnalysis(query), query_lower),
                           query_lower),
            query_lower)

\* variant: the ticket is filed with the default priority
CreateTicketStepDefaultPriority(st, customer_id, tools) ==
    Then(Call(st, "create_ticket",
              [customer_id |-> customer_id, issue |-> st.analysis.issue_summary,
               priority |-> "medium"], tools), LAMBDA c :
         IF c.last.raised THEN [c EXCEPT !.errors = Append(@, c.last.text)]
         ELSE IF c.last.value.success
         THEN [c EXCEPT !.data = DictSet(@, "ticket_created",
                                         DictGet(c.last.value, "ticket", NonePayload))]
         ELSE [c EXCEPT !.errors = Append(@, "Failed to create ticket")])

\* "Handle ticket creation if needed": the try block around create_ticket
CreateTicketStep(st, customer_id, tools) ==
    Then(Call(st, "create_ticket",
              [customer_id |-> customer_id, issue |-> st.analysis.issue_summary,
               priority |-> st.analysis.priority], tools), LAMBDA c :
         IF c.last.raised THEN [c EXCEPT !.errors = Append(@, c.last.text)]
         ELSE IF c.last.value.success
         THEN [c EXCEPT !.data = DictSet(@, "ticket_created",
                                         DictGet(c.last.value, "ticket", NonePayload))]
         ELSE [c EXCEPT !.errors = Append(@, "Failed to create ticket")])

\* f"Customer has {len(open_tickets)} open tickets"
CountReason(n) == "Customer has " \o ToString(n) \o " open tickets"

\* "Get customer's existing tickets if available": the try block around
\* get_customer_history; its except branch only logs
ExistingTicketsStep(st, customer_id, tools) ==
    Then(Call(st, "get_customer_history", [customer_id |-> customer_id], tools),
         LAMBDA c :
         IF c.last.raised \/ ~c.last.value.success THEN c
         ELSE LET tickets == DictGet(c.last.value, "tickets", <<>>)
                  open_tickets == SelectSeq(tickets, LAMBDA t : t.status # "resolved")
              IN  [c EXCEPT !.data = DictSet(@, "existing_tickets", tickets),
                            !.analysis =
                                IF Len(open_tickets) >= 3
                                THEN [@ EXCEPT !.escalation_needed = TRUE,
                                               !.escalation_reason =
                                                   CountReason(Len(open_tickets))]
                                ELSE @])

\* bool(support_data.get("ticket_created"))
TicketCreated(data) == DictGet(data, "ticket_created", NonePayload) # NonePayload

\* SupportAgent._generate_support_response: the reply of the LLM, or, if
\* call_llm raised, one of the two fixed texts
GenerateSupportResponse(data, llm) ==
    IF llm = "answers" THEN "<reply of the LLM>"
    ELSE IF TicketCreated(data)
    THEN "I've created support ticket #" \o ToString(data["ticket_created"].id)
             \o " for your issue. Our team will follow up shortly."
    ELSE "Thank you for reaching out. I've noted your concern and our team will assist you shortly."

\* the return statement of SupportAgent.process: the payload (an empty errors
\* stands for None), with the tool calls made and the tables afterwards
SupportReturn(st, llm) ==
    [raised |-> FALSE, tool_calls |-> st.tool_calls, db |-> st.db,
     classified |-> st.classified,
     payload |-> [response |-> GenerateSupportResponse(st.data, llm),
                  analysis |-> st.analysis,
                  data |-> DictSet(st.data, "analysis", st.analysis),
                  errors |-> st.errors]]

\* SupportAgent.process(message) for message.payload, statement after statement
SupportProcess(payload, d, tools, llm) ==
    LET query == DictGet(payload, "query", <<>>)
        customer_id == DictGet(payload, "customer_id", NoCustomerId)
        customer_data == DictGet(payload, "customer_data", EmptyDict)
    IN  Then(Started(d, AnalyzeSupportRequest(query, customer_data)), LAMBDA s0 :
        Then(IF s0.analysis.needs_ticket /\ IdTruthy(customer_id)
             THEN CreateTicketStep(s0, customer_id, tools) ELSE s0, LAMBDA s1 :
        Then(IF IdTruthy(customer_id)
             THEN ExistingTicketsStep(s1, customer_id, tools) ELSE s1, LAMBDA s2 :
        SupportReturn(s2, llm))))

----------------------------------------------------------------------------
(* CustomerDataAgent (src/src/agents/customer_data_agent.py) *)

Letters ==
    {UpperCase[k] : k \in 1..26} \cup {LowerCase[k] : k \in 1..26}

\* the character classes of the patterns: . (any), [^\s,], [0-9\-\+\(\)\s]
\* and [A-Za-z\s]
InClass(cls, ch) ==
    CASE cls = "any" -> TRUE
      [] cls = "email" -> ch \notin {Space, ","}
      [] cls = "phone" -> IsDigit(ch) \/ ch \in {"-", "+", "(", ")", Space}
      [] cls = "name" -> ch \in Letters \cup {Space}

\* cls+ is greedy: the position after the run of cls characters that starts at p
RunEnd(s, p, cls) ==
    LET stops == {k \in p..Len(s) : ~InClass(cls, s[k])}
    IN  IF stops = {} THEN Len(s) + 1
        ELSE CHOOSE k \in stops : \A j \in stops : k <= j

\* the group can start at position y: one character of the class, and for
\* [^\s,]+@[^\s,]+ a run that has an "@" with a character on either side
GroupAt(s, y, cls) ==
    /\ y <= Len(s) /\ InClass(cls, s[y])
    /\ cls = "email" => \E i \in (y + 1)..(RunEnd(s, y, cls) - 2) : s[i] = "@"

\* the first of the positions that satisfies the group, 0 if none does
FirstGroupAt(s, positions, cls) ==
    LET ok == SelectSeq(positions, LAMBDA y : y > 0 /\ GroupAt(s, y, cls))
    IN  IF ok = <<>> THEN 0 ELSE ok[1]

\* kw\s+(?:opt\s+)?(cls+) tried at position p: where the group starts, in the
\* order the matcher tries (each \s+ as long as possible, giving back one
\* space at a time; with the optional part before without it); 0 if no match
GroupStart(s, p, kw, opts, cls) ==
    IF ~StartsWithAt(s, p, kw) THEN 0
    ELSE LET a == p + Len(kw)
             e == SkipSpaces(s, a)
             with == {k \in 1..Len(opts) :
                         /\ StartsWithAt(s, e, opts[k])
                         /\ SkipSpaces(s, e + Len(opts[k])) > e + Len(opts[k])}
             b  == IF with = {} THEN 0
                   ELSE e + Len(opts[CHOOSE k \in with : TRUE])
             e2 == IF with = {} THEN 0 ELSE SkipSpaces(s, b)
         IN  IF e = a THEN 0
             ELSE FirstGroupAt(s, <<e2, IF e2 - b >= 2 THEN e2 - 1 ELSE 0,
                                    e, IF e - a >= 2 THEN e - 1 ELSE 0>>, cls)

\* s.strip()
Strip(s) ==
    LET inked == {k \in 1..Len(s) : s[k] # Space}
    IN  IF inked = {} THEN <<>>
        ELSE SubSeq(s, CHOOSE k \in inked : \A j \in inked : k <= j,
                       CHOOSE k \in inked : \A j \in inked : j <= k)

\* no match
NoMatch == [matched |-> FALSE, group |-> <<>>]

\* the leftmost of the positions at which the pattern matches s, and the group
LeftmostMatch(s, at, kw, opts, cls) ==
    IF at = {} THEN NoMatch
    ELSE Only({[matched |-> TRUE, group |-> SubSeq(s, g, RunEnd(s, g, cls) - 1)] :
                  g \in {GroupStart(s, CHOOSE x \in at : \A y \in at : x <= y,
                                    kw, opts, cls)}})

\* re.search(kw\s+(?:opt\s+)?(cls+), s): the leftmost match and its group(1)
Search(s, kw, opts, cls) ==
    Only({LeftmostMatch(str, {p \in 1..Len(str) : GroupStart(str, p, k, o, cls) # 0},
                        k, o, cls) :
             str \in {s}, k \in {kw}, o \in {opts}})

\* re.findall(r'"([^"]*)"', query)[0], for a query with a quoted string
FirstQuoted(query) ==
    LET quotes == {k \in 1..Len(query) : query[k] = "\""}
        open   == CHOOSE k \in quotes : \A j \in quotes : k <= j
        close  == CHOOSE k \in quotes \ {open} : \A j \in quotes \ {open} : k <= j
    IN  SubSeq(query, open + 1, close - 1)

\* CustomerDataAgent._extract_search_terms(query); <<>> is "" or None, both falsy
ExtractSearchTerms(query) ==
    IF Cardinality({k \in 1..Len(query) : query[k] = "\""}) >= 2
    THEN FirstQuoted(query)
    ELSE Then(Lower(query), LAMBDA lower :
         Then(Search(lower, Chars("search"), <<Chars("for")>>, "any"), LAMBDA search :
              IF search.matched THEN Strip(search.group)
              ELSE Then(Search(lower, Chars("find"), <<>>, "any"), LAMBDA find :
                   IF find.matched THEN Strip(find.group)
                   ELSE Then(Search(lower, Chars("look"),
                                    <<Chars("for"), Chars("up")>>, "any"), LAMBDA look :
                        IF look.matched THEN Strip(look.group) ELSE <<>>))))

\* update_data of _handle_update: the fields the three patterns extract
UpdateData(query) ==
    Then([email |-> Search(Lower(query), Chars("email"), <<Chars("to")>>, "email"),
          phone |-> Search(Lower(query), Chars("phone"), <<Chars("to")>>, "phone"),
          name |-> Search(query, Chars("name"), <<Chars("to")>>, "name")],
         LAMBDA match :
         [k \in {f \in {"email", "phone", "name"} : match[f].matched} |->
             IF k = "email" THEN Str(match[k].group) ELSE Str(Strip(match[k].group))])

\* the try block around get_customer
GetCustomerStep(st, customer_id, tools) ==
    Then(Call(st, "get_customer", [customer_id |-> customer_id], tools), LAMBDA c :
         IF c.last.raised THEN [c EXCEPT !.errors = Append(@, c.last.text)]
         ELSE IF c.last.value.success
         THEN [c EXCEPT !.data = DictSet(@, "customer",
                                         DictGet(c.last.value, "customer", NonePayload))]
         ELSE [c EXCEPT !.errors =
                   Append(@, "Customer " \o ToString(customer_id) \o " not found")])

\* a try block that stores what a successful result holds under key, and, like
\* the four blocks after the first one, has no else branch
Gather(st, name, args, tools, key, field) ==
    Then(Call(st, name, args, tools), LAMBDA c :
         IF c.last.raised THEN [c EXCEPT !.errors = Append(@, c.last.text)]
         ELSE IF c.last.value.success
         THEN [c EXCEPT !.data = DictSet(@, key,
                                         IF field = NoneStr THEN c.last.value
                                         ELSE DictGet(c.last.value, field, <<>>))]
         ELSE c)

\* _handle_update(query, customer_id) for a non-empty update_data: the result
\* of update_customer, or a result built from the exception
HandleUpdate(st, customer_id, update_data, tools) ==
    Then(Call(st, "update_customer",
              [k \in {"customer_id"} \cup DOMAIN update_data |->
                  IF k = "customer_id" THEN customer_id ELSE update_data[k]],
              tools), LAMBDA c :
         [c EXCEPT !.data =
             DictSet(@, "update_result",
                     IF c.last.raised THEN [success |-> FALSE, error |-> c.last.text]
                     ELSE c.last.value)])

RECURSIVE JoinErrors(_)
\* '; '.join(errors)
JoinErrors(errors) ==
    IF errors = <<>> THEN ""
    ELSE IF Len(errors) = 1 THEN errors[1]
    ELSE JoinErrors(SubSeq(errors, 1, Len(errors) - 1)) \o "; " \o errors[Len(errors)]

\* json.dumps(customer_data, indent=2, default=str), of which the error text of
\* an update_result is kept
JsonDumps(data) ==
    "<json.dumps>"
    \o (IF "update_result" \in DOMAIN data /\ "error" \in DOMAIN data["update_result"]
        THEN data["update_result"].error ELSE "")

\* CustomerDataAgent._generate_response(query, customer_data, errors)
GenerateResponse(data, errors, llm) ==
    IF DOMAIN data = {} /\ errors # <<>>
    THEN "I encountered some issues while processing your request: "
             \o JoinErrors(errors)
    ELSE IF DOMAIN data = {}
    THEN "I couldn't find any relevant customer data for your query. Please provide more details or a customer ID."
    ELSE IF llm = "answers" THEN "<reply of the LLM>"
    ELSE "Customer Data Retrieved:\n" \o JsonDumps(data)

\* a return statement that also records the failure of the LLM among the errors
CustomerDataReturnRecordsLlm(st, llm) ==
    [raised |-> FALSE, tool_calls |-> st.tool_calls, db |-> st.db,
     payload |-> [response |-> GenerateResponse(st.data, st.errors, llm),
                  data |-> st.data,
                  errors |-> IF llm = "raises"
                             THEN Append(st.errors, "LLM call failed") ELSE st.errors]]

\* the return statement of CustomerDataAgent.process: the payload (an empty
\* errors stands for None), with the tool calls made and the tables afterwards
CustomerDataReturn(st, llm) ==
    [raised |-> FALSE, tool_calls |-> st.tool_calls, db |-> st.db,
     payload |-> [response |-> GenerateResponse(st.data, st.errors, llm),
                  data |-> st.data,
                  errors |-> st.errors]]

\* word in query_lower
Has(query_lower, word) == Contains(query_lower, Chars(word))

\* variant: the update is issued whatever the patterns extracted
UpdateStepWithoutFields(st, query, customer_id, tools) ==
    HandleUpdate(st, customer_id, UpdateData(query), tools)

\* "Handle update requests"
UpdateStep(st, query, customer_id, tools) ==
    Then(UpdateData(query), LAMBDA update_data :
         IF DOMAIN update_data # {}
         THEN HandleUpdate(st, customer_id, update_data, tools) ELSE st)

\* "Search customers if needed"
SearchStep(st, query, tools) ==
    Then(ExtractSearchTerms(query), LAMBDA search_terms :
         IF search_terms # <<>>
         THEN Gather(st, "search_customers", [query |-> Str(search_terms), limit |-> 10],
                     tools, "search_results", "customers")
         ELSE st)

\* CustomerDataAgent.process(message) for message.payload, statement after
\* statement
CustomerDataProcess(payload, d, tools, llm) ==
    LET query == DictGet(payload, "query", <<>>)
        customer_id == DictGet(payload, "customer_id", NoCustomerId)
    IN  Then(Lower(query), LAMBDA ql :
        Then(IF IdTruthy(customer_id)
             THEN GetCustomerStep(Started(d, NonePayload), customer_id, tools)
             ELSE Started(d, NonePayload), LAMBDA s1 :
        Then(IF (Has(ql, "history") \/ Has(ql, "tickets")) /\ IdTruthy(customer_id)
             THEN Gather(s1, "get_customer_history", [customer_id |-> customer_id],
                         tools, "history", NoneStr)
             ELSE s1, LAMBDA s2 :
        Then(IF Has(ql, "list") \/ Has(ql, "all customers")
             THEN Gather(s2, "list_customers",
                         IF Has(ql, "active") THEN [limit |-> 10, status |-> "active"]
                         ELSE [limit |-> 10],
                         tools, "customers_list", "customers")
             ELSE s2, LAMBDA s3 :
        Then(IF Has(ql, "search") \/ Has(ql, "find")
             THEN SearchStep(s3, query, tools) ELSE s3, LAMBDA s4 :
        Then(IF Has(ql, "open tickets")
             THEN Gather(s4, "get_open_tickets", [limit |-> 20], tools,
                         "open_tickets", "tickets")
             ELSE s4, LAMBDA s5 :
        Then(IF Has(ql, "update") /\ IdTruthy(customer_id)
             THEN UpdateStep(s5, query, customer_id, tools) ELSE s5, LAMBDA s6 :
        CustomerDataReturn(s6, llm))))))))

----------------------------------------------------------------------------
(* The specialists on their own: one message handled, over the tables *)

MaxExtraTickets == 2

\* the tables after k more tickets of customer 5 were filed, none resolved yet
RECURSIVE WithExtraTickets(_)
WithExtraTickets(k) ==
    IF k = 0 THEN SampleDb
    ELSE LET d == WithExtraTickets(k - 1)
         IN  [d EXCEPT !.tickets =
                 Append(@, TicketRow(Len(@) + 1, 5, "Dashboard loading very slowly",
                                     IF k = 1 THEN "in_progress" ELSE "open",
                                     "medium"))]

Databases == {WithExtraTickets(k) : k \in 0..MaxExtraTickets}

\* a query of more than 200 characters
LongQuery ==
    Chars("I am unhappy with the service: ")
    \o [k \in 1..180 |-> IF k % 6 = 0 THEN " " ELSE "z"]

\* the queries the support agent is given
SupportQueries ==
    {Chars("I've been charged twice, please refund immediately!"),
     Chars("I have a question about my invoice"),
     Chars("I want to upgrade my account"),
     Chars("My account has a billing error"),
     Chars("The export is not working"),
     Chars("I am frustrated with the app"),
     Chars("This is urgent"),
     Chars("Just wondering about opening hours"),
     Chars("Please create ticket for me"),
     Chars("I want to report something"),
     Chars("Hello there"),
     Chars("Please help with my subscription, it is critical"),
     LongQuery}

\* the customer ids a payload carries: None, 0, a customer, nobody
CustomerIds == {NoCustomerId, 0, 5, 42}

\* the payloads the router builds for the support agent
SupportPayloads ==
    {[query |-> q, customer_id |-> c, customer_data |-> NonePayload] :
        q \in SupportQueries, c \in CustomerIds}

\* a run of agent's process on payload, with what it does for each outcome of
\* the summary call
Run(agent, payload, before, llm, out) ==
    [agent |-> agent, payload |-> payload, before |-> before, llm |-> llm, out |-> out]

\* SupportAgent.process(message) with message.payload = payload
support_process(payload, tools, llm) ==
    /\ run = NoRun
    /\ \E out \in {[o \in SummaryOutcomes |-> SupportProcess(payload, db, tools, o)]} :
           /\ run' = Run("support", payload, db, llm, out)
           /\ db' = out[llm].db
    /\ UNCHANGED <<handlers, agent_urls, agent_cards, next_port, history, calls,
                   nextId, lastOp, regOps, invoked, queries, agents, fetched,
                   clients, logs, system, threads, ret, lastDirOp>>

\* the queries the customer-data agent is given
CustomerQueries ==
    {ExampleQuery,
     Chars("Show the history of customer 5"),
     Chars("list all customers"),
     Chars("List the active customers and the open tickets"),
     Chars("search for Test"),
     Chars("find \"user5\" please"),
     Chars("Update email to new@example.com"),
     Chars("update phone to 555-1234"),
     Chars("Update name to Dan"),
     Chars("update my name to Dan and email to dan@x.com, phone 555"),
     Chars("update the record"),
     Chars("update phone  number"),
     Chars("Change email to a@b.com")}

\* the payloads the router builds for the customer-data agent
CustomerPayloads ==
    {[query |-> q, customer_id |-> c] : q \in CustomerQueries, c \in CustomerIds}

\* CustomerDataAgent.process(message) with message.payload = payload
customer_data_process(payload, tools, llm) ==
    /\ run = NoRun
    /\ \E out \in {[o \in SummaryOutcomes |->
                          CustomerDataProcess(payload, db, tools, o)]} :
           /\ run' = Run("customer_data", payload, db, llm, out)
           /\ db' = out[llm].db
    /\ UNCHANGED <<handlers, agent_urls, agent_cards, next_port, history, calls,
                   nextId, lastOp, regOps, invoked, queries, agents, fetched,
                   clients, logs, system, threads, ret, lastDirOp>>

\* the initialized system over any of the databases
InitSpecialists ==
    /\ handlers = SystemHandlers
    /\ agent_urls = SystemPorts
    /\ agent_cards = [n \in DOMAIN SystemPorts |-> AgentCard(n, SystemPorts[n])]
    /\ next_port = BasePort + 3
    /\ history = <<>>
    /\ calls = <<>>
    /\ nextId = 1
    /\ lastOp = [n \in DOMAIN SystemHandlers |->
                    [op |-> "register", handler |-> SystemHandlers[n]]]
    /\ regOps = 0
    /\ invoked = <<>>
    /\ queries = <<>>
    /\ agents = SystemAgents
    /\ fetched = NotFetched
    /\ db \in Databases
    /\ run = NoRun
    /\ clients = EmptyDict
    /\ logs = SystemLogs
    /\ system = InitializedSystem
    /\ threads = NoThreads
    /\ ret = NoReturn
    /\ lastDirOp = [n \in DOMAIN SystemAgents |->
                      [op |-> "register", info |-> SystemAgents[n]]]

NextSpecialists ==
    \/ \E p \in SupportPayloads, t \in ToolEnvs(SupportTools), l \in SummaryOutcomes :
          support_process(p, t, l)
    \/ \E p \in CustomerPayloads, t \in ToolEnvs(CustomerTools), l \in SummaryOutcomes :
          customer_data_process(p, t, l)

SpecSpecialists == InitSpecialists /\ [][NextSpecialists]_vars

----------------------------------------------------------------------------
(* The tool server's create_ticket called directly, and MCPClient.call_tool *)

\* what sqlite3 does during one call of a tool: every statement works, a
\* statement raises before the INSERT is committed, or the SELECT that reads the
\* new row back raises after the commit
DatabaseModes == {"works", "fails", "fails_after_commit"}

\* create_ticket's "except Exception as e": the failure as a value
Flagged == [success |-> FALSE, error |-> DatabaseFailure]

\* the body of create_ticket with its try/except, for each thing sqlite3 can do
CreateTicketBody(d, args, database) ==
    Then(CreateTicket(d, args), LAMBDA served :
         IF database = "works" \/ args.priority \notin {"low", "medium", "high"}
         THEN served
         ELSE IF database = "fails" THEN Served(Flagged, d)
         ELSE IF served.result.success THEN Served(Flagged, served.db)
         ELSE served)

\* the tables have room for one more ticket
HasTicketRoom == Len(db.tickets) < Len(SampleDb.tickets) + MaxExtraTickets

\* create_ticket(customer_id, issue, priority) called as a function of the server
create_ticket(customer_id, issue, priority, database) ==
    /\ HasTicketRoom
    /\ \E args \in {[customer_id |-> customer_id, issue |-> issue,
                     priority |-> priority]} :
       \E served \in {CreateTicketBody(db, args, database)} :
          /\ db' = served.db
          /\ ret' = [op |-> "create_ticket", args |-> args, database |-> database,
                     raised |-> FALSE, value |-> served.result, before |-> db]
    /\ UNCHANGED <<handlers, agent_urls, agent_cards, next_port, history, calls,
                   nextId, lastOp, regOps, invoked, queries, agents, fetched, run,
                   clients, logs, system, threads, lastDirOp>>

\* how the session answers tools/call: the tool's result, a result with isError
\* set, or a JSON-RPC error (session.call_tool raises the SDK's exception)
SessionOutcomes == {"result", "is_error", "jsonrpc_error"}

\* the text of the isError result for a name the server has no tool for
UnknownTool(name) == "Unknown tool: " \o name

\* the exception classes a caller of call_tool can see
MCPErrorClass == "MCPError"

MCPToolErrorClass == "MCPToolError"

\* the SDK's own exception, raised by session.call_tool and not caught
SdkErrorClass == "mcp.shared.exceptions.McpError"

\* the answer of the session to tools/call(name, args)
SessionReply(d, name, args, outcome) ==
    IF outcome = "jsonrpc_error"
    THEN [kind |-> "raised", text |-> ProtocolFailure, db |-> d]
    ELSE IF name \notin ToolNames
    THEN [kind |-> "result", isError |-> TRUE, text |-> UnknownTool(name), db |-> d]
    ELSE IF outcome = "is_error"
    THEN [kind |-> "result", isError |-> TRUE, text |-> ToolFailure, db |-> d]
    ELSE Then(Tool(name, d, args), LAMBDA served :
              [kind |-> "result", isError |-> FALSE, value |-> served.result,
               db |-> served.db])

\* MCPClient._call_tool_async: what the caller of call_tool gets for a reply
CallToolAsync(name, reply) ==
    IF reply.kind = "raised"
    THEN [raised |-> TRUE, class |-> SdkErrorClass, text |-> reply.text]
    ELSE IF reply.isError
    THEN [raised |-> TRUE, class |-> MCPToolErrorClass, tool_name |-> name,
          message |-> reply.text, text |-> MCPToolError(name, reply.text)]
    ELSE [raised |-> FALSE, value |-> reply.value]

\* the tier of a failed call: a tool that ran and signalled failure, or a
\* failure of the protocol (no such tool, malformed request, broken session)
Tier(name, outcome) ==
    IF outcome = "jsonrpc_error" \/ name \notin ToolNames THEN "protocol"
    ELSE IF outcome = "is_error" THEN "tool"
    ELSE "none"

\* the tool calls made through the client: (name, arguments)
ClientCalls ==
    {[name |-> "get_customer", args |-> [customer_id |-> 5]],
     [name |-> "create_ticket",
      args |-> [customer_id |-> 5, issue |-> "New test issue", priority |-> "medium"]],
     [name |-> "nonexistent_tool", args |-> EmptyDict]}

\* MCPClient.call_tool(name, arguments)
call_tool(name, args, outcome) ==
    /\ HasTicketRoom
    /\ \E reply \in {SessionReply(db, name, args, outcome)} :
          /\ db' = reply.db
          /\ ret' = [op |-> "call_tool", name |-> name, args |-> args,
                     tier |-> Tier(name, outcome), got |-> CallToolAsync(name, reply)]
    /\ UNCHANGED <<handlers, agent_urls, agent_cards, next_port, history, calls,
                   nextId, lastOp, regOps, invoked, queries, agents, fetched, run,
                   clients, logs, system, threads, lastDirOp>>

\* the arguments create_ticket is given
TicketPriorities == {"low", "medium", "high", "invalid", ""}

TicketIssues == {"New test issue", "Test"}

NextTools ==
    \/ \E c \in {5, 42}, i \in TicketIssues, p \in TicketPriorities,
          database \in DatabaseModes : create_ticket(c, i, p, database)
    \/ \E c \in ClientCalls, o \in SessionOutcomes : call_tool(c.name, c.args, o)

SpecTools == InitSpecialists /\ [][NextTools]_vars

----------------------------------------------------------------------------
(* The system: one user query, through the router, to the specialists *)

\* what process of the agent registered under a specialist's name can do when it
\* is not the specialist's: the outcomes of BaseAgent.process, and a payload
\* without a 'response' (as RouterAgent.process returns for a non-query)
SystemOutcomes ==
    ProcessOutcomes \cup {[kind |-> "result", value |-> [status |-> "processed"]]}

\* the analyses the LLM can give for a query: the flags and the customer id
SystemAnalyses ==
    {[kind |-> "json",
      value |-> [type |-> "dict", analysis |-> "llm", requires_customer_data |-> c,
                 requires_support |-> s, customer_id |-> id, routing_plan |-> "[]"]] :
        c \in BOOLEAN, s \in BOOLEAN, id \in {NoCustomerId, 5}}

\* the user's queries
SystemQueries ==
    {ExampleQuery, Chars("I've been charged twice, please refund immediately!")}

\* a query with an analysis by the LLM, or with the keyword fallback
SystemInputs ==
    {<<query, llm>> : query \in SystemQueries,
                      llm \in SystemAnalyses \cup {[kind |-> "raises"]}}

\* the tools the specialist called name calls
ToolsOf(name) == IF name = "customer_data" THEN CustomerTools ELSE SupportTools

\* handle_message of a specialist: process runs on the message's payload over
\* the tables, and what it returns is wrapped into a RESPONSE
specialist_handles(i, tools, llm) ==
    /\ CanStep(i) /\ calls[i].handler = "agent"
    /\ calls[i].msg.recipient \in SpecialistNames
    /\ \E out \in {IF calls[i].msg.recipient = "customer_data"
                   THEN CustomerDataProcess(calls[i].msg.payload, db, tools, llm)
                   ELSE SupportProcess(calls[i].msg.payload, db, tools, llm)} :
           /\ BusBecomes(Noting(HandlerCompleted(Bus, i,
                             HandleMessage(calls[i].msg.recipient, calls[i].msg,
                                           [kind |-> "result", value |-> out.payload],
                                           nextId)),
                             i, [kind |-> "result"]))
           /\ db' = out.db
    /\ UNCHANGED <<handlers, agent_urls, agent_cards, next_port, lastOp, regOps,
                   agents, fetched, run,
                   clients, logs, system, threads, ret, lastDirOp>>

NextSystem ==
    \/ \E in \in SystemInputs : handle_user_query(in[1], NoneStr, in[2])
    \/ \E q \in 1..Len(queries) : CustomerAnswered(q)
    \/ \E q \in 1..Len(queries) : SupportAnswered(q)
    \/ \E i \in 1..Len(calls), l \in SummaryOutcomes :
          \E t \in ToolEnvs(ToolsOf(calls[i].msg.recipient)) : specialist_handles(i, t, l)
    \/ \E i \in 1..Len(calls), o \in SystemOutcomes : AgentHandles(i, o)

SpecSystem == InitRouter /\ [][NextSystem]_vars

\* the steps that the event loop takes on its own once a query is under way:
\* a handler that was invoked returns or raises, and the router goes on when
\* the dispatch it awaits has returned
SystemProgress ==
    \/ \E q \in 1..Len(queries) : CustomerAnswered(q)
    \/ \E q \in 1..Len(queries) : SupportAnswered(q)
    \/ \E i \in 1..Len(calls), l \in SummaryOutcomes :
          \E t \in ToolEnvs(ToolsOf(calls[i].msg.recipient)) : specialist_handles(i, t, l)
    \/ \E i \in 1..Len(calls), o \in SystemOutcomes : AgentHandles(i, o)

\* the system when every LLM call, tool call and handler returns or raises
SpecSystemFair == SpecSystem /\ WF_vars(SystemProgress)

----------------------------------------------------------------------------
(* MultiAgentSystem (src/src/agents/orchestrator.py): initialize and            *)
(* process_query_async called from several threads.  A thread's position is   *)
(* the statement it is about to run; the messages the router sends while it   *)
(* handles a query are followed in SpecSystem, here only what the agents log. *)

\* the ways into the system
Apis == {"initialize", "process_query", "process_query_async"}

\* what the router's analysis asks for
LogPlans ==
    {[requires_customer_data |-> TRUE, requires_support |-> TRUE],
     [requires_customer_data |-> FALSE, requires_support |-> TRUE],
     [requires_customer_data |-> FALSE, requires_support |-> FALSE]}

\* the agents in the order initialize constructs them and the logs are collected
SystemAgentOrder == <<"router", "customer_data", "support">>

\* self._logs.append(log_entry) for each message, in order
RECURSIVE Emit(_, _, _, _)
Emit(lg, agent, about, messages) ==
    IF messages = <<>> THEN lg
    ELSE Emit(DictSet(lg, agent,
                      Append(DictGet(lg, agent, <<>>),
                             LogEntry(agent, about, messages[1]))),
              agent, about, SubSeq(messages, 2, Len(messages)))

\* what the router logs before its next await: the dispatch to the next
\* specialist, or the synthesis when nobody is left to ask
NextRouting(todo) ==
    IF todo = <<>> THEN <<"Synthesizing final response">>
    ELSE <<"Routing to " \o todo[1] \o "_agent via A2A", "Sending query to " \o todo[1]>>

\* a specialist's handle_message and process: what it logs
SpecialistEntries == <<"Received query from router", "Processing query">>

\* the specialists a plan sends the query to, in order
Route(plan) ==
    (IF plan.requires_customer_data THEN <<"customer_data">> ELSE <<>>)
    \o (IF plan.requires_support THEN <<"support">> ELSE <<>>)

\* handle_user_query up to the first await: what the router logs
RouterOpening(plan) ==
    <<"Analyzing query", "Analysis", "Requires customer data", "Requires support">>
    \o NextRouting(Route(plan))

\* the router after the dispatch to name has returned, with rest still to ask
RouterAfter(name, rest) == <<"Received response from " \o name>> \o NextRouting(rest)

\* a thread inside a call: its api, the call's number, the plan of its query,
\* the specialists still to be asked and the agent_logs of its result
InCall(pc, api, about, plan, todo, agent_logs) ==
    [pc |-> pc, api |-> api, about |-> about, plan |-> plan, todo |-> todo,
     agent_logs |-> agent_logs]

\* where a call goes once the system is initialized
AfterInitialize(api) == IF api = "initialize" THEN "returned" ELSE "clear_logs"

\* one thread moves, the others stay
ThreadBecomes(t, th) == threads' = [threads EXCEPT ![t] = th]

\* a call of initialize, process_query or process_query_async begins on thread
\* t: process_query_async reads self._initialized (line 84)
system_call(t, api, plan) ==
    /\ threads[t].pc \in {"idle", "returned"}
    /\ system.calls < MaxQueries
    /\ system' = [system EXCEPT !.calls = @ + 1]
    /\ ThreadBecomes(t, InCall(IF api = "initialize" \/ ~system.initialized
                               THEN "initialize" ELSE "clear_logs",
                               api, system.calls + 1, plan, Route(plan), <<>>))
    /\ UNCHANGED <<handlers, agent_urls, agent_cards, next_port, history, calls,
                   nextId, lastOp, regOps, invoked, queries, agents, fetched, db, run,
                   clients, logs, ret, lastDirOp>>

\* initialize: "if self._initialized: return"
initialize_checks(t) ==
    /\ threads[t].pc = "initialize"
    /\ ThreadBecomes(t, [threads[t] EXCEPT !.pc =
                            IF system.initialized THEN AfterInitialize(threads[t].api)
                            ELSE "router"])
    /\ UNCHANGED <<handlers, agent_urls, agent_cards, next_port, history, calls,
                   nextId, lastOp, regOps, invoked, queries, agents, fetched, db, run,
                   clients, logs, system, ret, lastDirOp>>

\* the statement after the construction of name
AfterConstruct(name) ==
    CASE name = "router" -> "customer_data"
      [] name = "customer_data" -> "support"
      [] name = "support" -> "set_initialized"

\* initialize: self.<name> = <Agent>(model=self.model); the constructor registers
\* the agent in the Directory and on the Bus and logs it (BaseAgent._register)
construct_agent(t) ==
    /\ threads[t].pc \in DOMAIN SystemAgents
    /\ \E name \in {threads[t].pc} :
          /\ agents' = DirectoryAfterRegister(agents, name, SystemAgents[name].description,
                                              SystemAgents[name].capabilities)
          /\ handlers' = InstallHandler(handlers, name, SystemHandlers[name])
          /\ next_port' = next_port + 1
          /\ agent_urls' = DictSet(agent_urls, name, next_port)
          /\ agent_cards' = DictSet(agent_cards, name, AgentCard(name, next_port))
          /\ lastOp' = DictSet(lastOp, name, [op |-> "register", handler |-> SystemHandlers[name]])
          /\ lastDirOp' = DictSet(lastDirOp, name,
                                  [op |-> "register", info |-> SystemAgents[name]])
          /\ logs' = DictSet(logs, name, <<RegisteredEntry(name)>>)
          /\ system' = [system EXCEPT !.built = @ + 1]
          /\ ThreadBecomes(t, [threads[t] EXCEPT !.pc = AfterConstruct(name)])
    /\ UNCHANGED <<history, calls, nextId, regOps, invoked, queries, fetched, db, run,
                   clients, ret>>

\* initialize: self._initialized = True
set_initialized(t) ==
    /\ threads[t].pc = "set_initialized"
    /\ system' = [system EXCEPT !.initialized = TRUE]
    /\ ThreadBecomes(t, [threads[t] EXCEPT !.pc = AfterInitialize(threads[t].api)])
    /\ UNCHANGED <<handlers, agent_urls, agent_cards, next_port, history, calls,
                   nextId, lastOp, regOps, invoked, queries, agents, fetched, db, run,
                   clients, logs, ret, lastDirOp>>

\* process_query_async: agent.clear_logs() for the three agents
clear_logs(t) ==
    /\ threads[t].pc = "clear_logs"
    /\ logs' = [n \in DOMAIN logs |-> <<>>]
    /\ ThreadBecomes(t, [threads[t] EXCEPT !.pc = "handle_user_query"])
    /\ UNCHANGED <<handlers, agent_urls, agent_cards, next_port, history, calls,
                   nextId, lastOp, regOps, invoked, queries, agents, fetched, db, run,
                   clients, system, ret, lastDirOp>>

\* self.router.handle_user_query(query) runs up to its first await
router_starts(t) ==
    /\ threads[t].pc = "handle_user_query"
    /\ logs' = Emit(logs, "router", threads[t].about, RouterOpening(threads[t].plan))
    /\ ThreadBecomes(t, [threads[t] EXCEPT !.pc = "dispatched"])
    /\ UNCHANGED <<handlers, agent_urls, agent_cards, next_port, history, calls,
                   nextId, lastOp, regOps, invoked, queries, agents, fetched, db, run,
                   clients, system, ret, lastDirOp>>

\* the specialist the router awaits handles the message and the router goes on
\* to its next dispatch or to the synthesis
specialist_answers(t) ==
    /\ threads[t].pc = "dispatched"
    /\ threads[t].todo # <<>>
    /\ \E name \in {threads[t].todo[1]} :
          logs' = Emit(Emit(logs, name, threads[t].about, SpecialistEntries),
                       "router", threads[t].about, RouterAfter(name, Tail(threads[t].todo)))
    /\ ThreadBecomes(t, [threads[t] EXCEPT !.todo = Tail(@)])
    /\ UNCHANGED <<handlers, agent_urls, agent_cards, next_port, history, calls,
                   nextId, lastOp, regOps, invoked, queries, agents, fetched, db, run,
                   clients, system, ret, lastDirOp>>

\* all_logs.extend(agent.get_logs()) for the three agents, in order
AllLogs(lg) ==
    DictGet(lg, "router", <<>>) \o DictGet(lg, "customer_data", <<>>)
    \o DictGet(lg, "support", <<>>)

\* process_query_async: handle_user_query has returned; the logs are collected
\* into result["agent_logs"] and the call returns
collect_logs(t) ==
    /\ threads[t].pc = "dispatched"
    /\ threads[t].todo = <<>>
    /\ ThreadBecomes(t, [threads[t] EXCEPT !.pc = "returned",
                                          !.agent_logs = AllLogs(logs)])
    /\ UNCHANGED <<handlers, agent_urls, agent_cards, next_port, history, calls,
                   nextId, lastOp, regOps, invoked, queries, agents, fetched, db, run,
                   clients, logs, system, ret, lastDirOp>>

NextOrchestrator ==
    \/ \E t \in Threads, api \in Apis, plan \in LogPlans : system_call(t, api, plan)
    \/ \E t \in Threads : initialize_checks(t)
    \/ \E t \in Threads : construct_agent(t)
    \/ \E t \in Threads : set_initialized(t)
    \/ \E t \in Threads : clear_logs(t)
    \/ \E t \in Threads : router_starts(t)
    \/ \E t \in Threads : specialist_answers(t)
    \/ \E t \in Threads : collect_logs(t)

\* a MultiAgentSystem that nobody has initialized yet, used from two threads
SpecOrchestrator == Init /\ [][NextOrchestrator]_vars

----------------------------------------------------------------------------
(* Properties *)

CallIds == 1..Len(calls)

\* where the message with this message_id stands in a history
PositionsIn(h, id) == {k \in 1..Len(h) : h[k].message_id = id}

Positions(id) == PositionsIn(history, id)

PosOf(id) == CHOOSE k \in Positions(id) : TRUE

\* the history entries that belong to an activation: its request and what it returned
EntriesIn(h, c) ==
    PositionsIn(h, c.msg.message_id)
        \cup (IF c.ret = NoMessage THEN {} ELSE PositionsIn(h, c.ret.message_id))

\* how often the handler of activation i has been invoked
Invocations(log, i) == Cardinality({k \in 1..Len(log) : log[k] = i})

\* C1: a send to a recipient without a registered handler does not raise; it
\* returns an ERROR message addressed to the sender, with the text
\* "Agent '<recipient>' not found" and the conversation id of the request, and
\* the unchanged request followed by that ERROR are in the history.
C1_UnroutableGivesError ==
    \A i \in CallIds :
        LET c == calls[i] IN
        c.latest = NoHandler =>
            /\ c.pc = "done" /\ c.outcome = "UNROUTABLE"
            /\ c.ret.type = "error"
            /\ c.ret.recipient = c.msg.sender
            /\ c.ret.payload = [error |-> "Agent '" \o c.msg.recipient \o "' not found"]
            /\ c.ret.conversation_id = c.msg.conversation_id
            /\ \E k \in 1..(Len(history) - 1) : history[k] = c.msg /\ history[k + 1] = c.ret

C1_Witness ==
    \E i \in CallIds :
        /\ calls[i].msg.recipient = "ghost" /\ calls[i].outcome = "UNROUTABLE"
        /\ calls[i].ret.payload = [error |-> "Agent 'ghost' not found"]

\* C2: when the handler raises, send_message does not raise: it returns an ERROR
\* message addressed to the sender that carries the failure text and the
\* conversation id of the request, and that ERROR is appended to the history.
C2_HandlerFailureGivesError ==
    \A i \in CallIds :
        LET c == calls[i] IN
        (c.handler = "raiser" /\ c.pc = "done") =>
            /\ c.outcome = "ERRORED"
            /\ c.ret.type = "error"
            /\ c.ret.recipient = c.msg.sender
            /\ c.ret.payload = [error |-> "handler failed"]
            /\ c.ret.conversation_id = c.msg.conversation_id
            /\ c.returnedLen < Len(history) /\ history[c.returnedLen + 1] = c.ret

C2_Witness ==
    \E i \in CallIds : calls[i].handler = "raiser" /\ calls[i].outcome = "ERRORED"

\* C3: each send appends exactly its request and then, if it returns a message,
\* that message: two entries when a response or ERROR is returned, one when the
\* handler returns nothing; n sends to handlers that always respond leave 2n entries.
C3_HistoryAccounting ==
    /\ \A i \in CallIds :
        LET c == calls[i] IN
        /\ Cardinality(Positions(c.msg.message_id)) = 1
        /\ c.pc # "done" => c.ret = NoMessage
        /\ c.ret # NoMessage =>
              /\ Cardinality(Positions(c.ret.message_id)) = 1
              /\ PosOf(c.msg.message_id) < PosOf(c.ret.message_id)
        /\ Cardinality(EntriesIn(history, c)) = IF c.ret = NoMessage THEN 1 ELSE 2
    /\ Len(history) = Len(calls) + Cardinality({i \in CallIds : calls[i].ret # NoMessage})
    /\ (\A i \in CallIds : calls[i].handler = "echo") => Len(history) = 2 * Len(calls)

C3_Witness ==
    /\ Len(calls) = 2
    /\ \A i \in CallIds : calls[i].handler = "echo" /\ calls[i].pc = "done"
    /\ Len(history) = 4

\* C4: the request is in the history before the handler is invoked and the
\* response is appended after the handler has returned; the entries of a nested
\* send lie between the outer request and the outer response, and the outer
\* handler is invoked before the inner one.
C4_CausalOrder ==
    /\ \A i \in CallIds :
        LET c == calls[i] IN
        c.handler # NoHandler =>
            /\ Positions(c.msg.message_id) # {}
            /\ PosOf(c.msg.message_id) <= c.invokedLen
            /\ c.ret # NoMessage =>
                  /\ Positions(c.ret.message_id) # {}
                  /\ PosOf(c.ret.message_id) > c.returnedLen
                  /\ c.returnedLen >= c.invokedLen
    /\ \A i \in CallIds : \A j \in Children(i) :
        /\ Positions(calls[i].msg.message_id) # {} /\ Positions(calls[j].msg.message_id) # {}
        /\ PosOf(calls[i].msg.message_id) < PosOf(calls[j].msg.message_id)
        /\ calls[i].pc = "done" => calls[j].pc = "done"
        /\ calls[i].ret # NoMessage =>
              \A k \in EntriesIn(history, calls[j]) : k < PosOf(calls[i].ret.message_id)
        /\ calls[j].handler # NoHandler =>
              \E a, b \in 1..Len(invoked) : a < b /\ invoked[a] = i /\ invoked[b] = j

C4_Witness ==
    \E i \in CallIds : \E j \in Children(i) :
        /\ calls[i].outcome = "RESPONDED" /\ calls[j].outcome = "RESPONDED"
        /\ history[1] = calls[i].msg /\ history[2] = calls[j].msg
        /\ history[3] = calls[j].ret /\ history[4] = calls[i].ret

\* the send_message activations made by handle_user_query activation q
ExchangeCalls(q) == {queries[q].dispatches[k] : k \in 1..Len(queries[q].dispatches)}

\* the messages appended to the history during the exchange of q: each QUERY to a
\* specialist and what send_message returned for it (RESPONSE or ERROR)
ExchangeMessages(q) ==
    {calls[j].msg : j \in ExchangeCalls(q)}
    \cup {calls[j].ret : j \in {k \in ExchangeCalls(q) : Truthy(calls[k].ret)}}

\* C5: in the exchange started by one user query, every message appended to the
\* history (the QUERY to each specialist, the specialist's RESPONSE or ERROR, a
\* bus-made ERROR) carries the conversation id of the originating user query.
\* A query that arrives without a conversation id (process_query_async) has none
\* to share: its messages carry "".
C5_ConversationIdPropagated ==
    \A q \in 1..Len(queries) :
        \A m \in ExchangeMessages(q) :
            m.conversation_id = queries[q].conversation_id

\* the next step of the handler of activation i
HandlerStep(i) ==
    \/ ChainForwards(i, "await") \/ ChainForwards(i, "sync")
    \/ ChainReturns(i)
    \/ \E o \in ProcessOutcomes : AgentHandles(i, o)

\* the state of one send: SENT, then exactly one of the four terminal outcomes
C6_StateOf(i) ==
    LET c == calls[i] IN
    /\ Cardinality(Positions(c.msg.message_id)) = 1
    /\ Invocations(invoked, i) = IF c.handler = NoHandler THEN 0 ELSE 1
    /\ c.pc \in {"delivered", "done"}
    /\ c.pc = "delivered" =>
          /\ c.outcome = "PENDING" /\ c.handler # NoHandler /\ c.ret = NoMessage
          /\ Cardinality(EntriesIn(history, c)) = 1
          \* a handler that is not waiting (for a nested send, or for the thread
          \* that send_message_sync blocks) can return or raise
          /\ \/ \E j \in Children(i) : calls[j].pc # "done"
             \/ SyncActive # {} /\ ~WithinCall(i, Max(SyncActive))
             \/ ENABLED HandlerStep(i)
    /\ c.pc = "done" =>
          /\ c.outcome \in {"UNROUTABLE", "RESPONDED", "SILENT", "ERRORED"}
          /\ c.outcome = "UNROUTABLE" =>
                /\ c.handler = NoHandler
                /\ c.ret.type = "error" /\ c.ret.sender = "a2a_protocol"
                /\ Cardinality(EntriesIn(history, c)) = 2
          /\ c.outcome = "RESPONDED" =>
                /\ c.handler # NoHandler /\ c.ret # NoMessage
                /\ Cardinality(EntriesIn(history, c)) = 2
          /\ c.outcome = "SILENT" =>
                /\ c.handler # NoHandler /\ c.ret = NoMessage
                /\ Cardinality(EntriesIn(history, c)) = 1
                /\ \A k \in 1..Len(history) : history[k] # NoMessage
          /\ c.outcome = "ERRORED" =>
                /\ c.handler # NoHandler
                /\ c.ret.type = "error" /\ c.ret.sender = "a2a_protocol"
                /\ Cardinality(EntriesIn(history, c)) = 2

\* once a send has reached its terminal outcome nothing of it changes: no further
\* history entry, no further invocation of the handler
C6_Final(i) ==
    calls[i].pc = "done" =>
        /\ calls'[i] = calls[i]
        /\ EntriesIn(history', calls[i]) = EntriesIn(history, calls[i])
        /\ Invocations(invoked', i) = Invocations(invoked, i)
        /\ Len(history') >= Len(history)

\* C6: every message passed to send_message is first appended to the history and
\* then reaches exactly one of UNROUTABLE, RESPONDED, SILENT, ERRORED; the
\* handler is invoked at most once; a handler that is not waiting can always
\* finish; after the terminal outcome no history entry is added for that send.
C6_Lifecycle ==
    /\ [](\A i \in CallIds : C6_StateOf(i))
    /\ [][\A i \in CallIds : C6_Final(i)]_vars

C6_Witness ==
    \E i, j \in CallIds :
        /\ calls[i].outcome = "SILENT" /\ Len(history) > PosOf(calls[i].msg.message_id)
        /\ calls[j].outcome = "ERRORED"

\* C7: if process raises, handle_message does not raise: the bus receives from it
\* an ERROR message from the agent to the sender of the request, carrying the
\* failure text and the conversation id of the request.
C7_ProcessFailureGivesError ==
    \A i \in CallIds :
        LET c == calls[i] IN
        (c.handler = "agent" /\ c.proc = "raise") =>
            /\ c.outcome = "RESPONDED"
            /\ c.ret.type = "error"
            /\ c.ret.sender = c.msg.recipient
            /\ c.ret.recipient = c.msg.sender
            /\ c.ret.payload = [error |-> "process failed"]
            /\ c.ret.conversation_id = c.msg.conversation_id

C7_Witness ==
    \E i \in CallIds : calls[i].proc = "raise" /\ calls[i].ret.type = "error"

\* C8: if process returns a result, handle_message returns a new RESPONSE from the
\* agent to the sender of the request with that result as payload and the
\* conversation id of the request; if process returns None, handle_message returns
\* None and the bus records only the request.
C8_ProcessResultGivesResponse ==
    \A i \in CallIds :
        LET c == calls[i] IN
        c.handler = "agent" =>
            /\ c.proc = "result" =>
                  /\ c.outcome = "RESPONDED"
                  /\ c.ret.type = "response"
                  /\ c.ret.sender = c.msg.recipient
                  /\ c.ret.recipient = c.msg.sender
                  /\ c.ret.payload = [response |-> "ok"]
                  /\ c.ret.conversation_id = c.msg.conversation_id
                  /\ c.ret.message_id # c.msg.message_id
            /\ c.proc = "none" =>
                  /\ c.outcome = "SILENT" /\ c.ret = NoMessage
                  /\ Cardinality(EntriesIn(history, c)) = 1

C8_Witness ==
    \E i, j \in CallIds :
        /\ calls[i].proc = "result" /\ calls[i].ret.type = "response"
        /\ calls[j].proc = "none" /\ calls[j].pc = "done"

\* C10: a send invokes the handler most recently registered for the recipient and
\* not unregistered since, and no other; after unregister_handler the send gets
\* the 'not found' ERROR until the name is registered again.
C10_LatestHandlerInvoked ==
    /\ \A n \in AgentNames : LookupHandler(handlers, n) = Latest(n)
    /\ \A i \in CallIds :
        LET c == calls[i] IN
        /\ c.handler = c.latest
        /\ c.latest = NoHandler => c.outcome = "UNROUTABLE"
        /\ Invocations(invoked, i) = IF c.latest = NoHandler THEN 0 ELSE 1

\* a handler was replaced between two sends and the second send invoked the new one
C10_Witness ==
    \E i, j \in CallIds :
        /\ i < j /\ calls[i].msg.recipient = calls[j].msg.recipient
        /\ calls[i].handler = "raiser" /\ calls[j].handler = "echo"
        /\ calls[j].outcome = "RESPONDED"

\* while send_message_sync(i) has not returned, the calling thread does nothing
\* else: only activations made within it appear or change
C9_Blocks(i) ==
    (calls[i].api = "sync" /\ calls[i].pc # "done") =>
        /\ handlers' = handlers
        /\ \A j \in CallIds : ~WithinCall(j, i) => calls'[j] = calls[j]
        /\ \A j \in (1..Len(calls')) \ CallIds : calls'[j].parent # 0

\* what send_message_sync(i) did, in a context with or without a running loop
C9_StateOf(i) ==
    LET c == calls[i]
        fresh == c.msg.message_id + 1
    IN
    c.api = "sync" =>
        \* no nested run on a running loop; with no loop, a direct run
        /\ c.loopRunning => c.runner = "worker"
        /\ ~c.loopRunning => c.runner = "direct"
        /\ c.outcome # "RAISED"
        \* the handler is invoked exactly once
        /\ Invocations(invoked, i) = IF c.latest = NoHandler THEN 0 ELSE 1
        /\ c.pc = "delivered" =>
              \/ \E j \in Children(i) : calls[j].pc # "done"
              \/ SyncActive # {} /\ Max(SyncActive) # i
              \/ ENABLED HandlerStep(i)
        \* the value returned and the entries recorded are those of send_message
        /\ c.pc = "done" =>
              /\ c.latest = NoHandler => c.ret = ErrorNotFound(c.msg, fresh)
              /\ c.latest = "echo" => c.ret = EchoResponse(c.msg, fresh)
              /\ c.latest = "agent" =>
                    \E o \in ProcessOutcomes :
                        c.ret = HandleMessage(c.msg.recipient, c.msg, o, c.ret.message_id).value
              /\ c.latest = "chain" =>
                    \E j \in Children(i) :
                        c.ret = ChainResponse(c.msg, calls[j].ret, c.ret.message_id)
              /\ \E k \in 1..Len(history) :
                    /\ history[k] = c.msg
                    /\ c.ret # NoMessage => \E l \in (k+1)..Len(history) : history[l] = c.ret
              /\ Cardinality(EntriesIn(history, c)) = IF c.ret = NoMessage THEN 1 ELSE 2

\* C9: send_message_sync completes in both contexts: without a running loop it
\* runs send_message directly, inside a running loop it runs it on a worker with
\* its own loop and blocks the caller; the handler is invoked exactly once, the
\* value returned and the history entries are those of send_message.
C9_SyncBridgesBothContexts ==
    /\ [](\A i \in CallIds : C9_StateOf(i))
    /\ [][\A i \in CallIds : C9_Blocks(i)]_vars

C9_Witness ==
    \E i, j \in CallIds :
        /\ calls[i].api = "sync" /\ calls[i].loopRunning /\ calls[i].runner = "worker"
        /\ calls[i].outcome = "RESPONDED"
        /\ calls[j].api = "sync" /\ ~calls[j].loopRunning /\ calls[j].runner = "direct"
        /\ calls[j].outcome = "RESPONDED"

\* what holds right after BaseAgent(name, description, capabilities) returned
C11_AfterConstruction(n, d) ==
    BaseAgentInit(n, d.description, d.capabilities) =>
        /\ n \in DOMAIN agents'
        /\ agents'[n] = AgentInfo(n, d.description, d.capabilities)
        /\ LookupHandler(handlers', n) = "agent"

\* a send addressed to a name whose handler is an agent's handle_message is
\* delivered to that agent: its handle_message runs, once, and runs process
C11_Delivered(i) ==
    LET c == calls[i] IN
    c.latest = "agent" =>
        /\ c.handler = "agent"
        /\ Invocations(invoked, i) = 1
        /\ c.pc = "done" => c.proc \in {"result", "none", "raise"}

\* C11: immediately after an agent has been constructed with name n the Directory
\* holds the descriptor of n with its description and capabilities, and the bus
\* has the agent's handle_message as the handler of n, so that a send addressed
\* to n is delivered to that agent.
C11_ConstructionMakesAddressable ==
    /\ [][\A n \in AgentNames, d \in AgentDescriptions : C11_AfterConstruction(n, d)]_vars
    /\ [](\A i \in CallIds : C11_Delivered(i))

C11_Witness ==
    \E i \in CallIds :
        /\ calls[i].msg.recipient \in DOMAIN agents
        /\ agents[calls[i].msg.recipient].description = "second"
        /\ calls[i].handler = "agent" /\ calls[i].proc = "result"
        /\ calls[i].outcome = "RESPONDED"

\* a is an initial part of b
IsPrefix(a, b) == Len(a) <= Len(b) /\ SubSeq(b, 1, Len(a)) = a

\* a step of send_message: an activation is created or returns
SendStep == calls' # calls

\* C12 as stated: the history is never pruned, the history at an earlier point
\* is a prefix of the history at every later point, and only send_message
\* changes it.
C12_NeverPruned ==
    [][IsPrefix(history, history') /\ (history' # history => SendStep)]_vars

\* C12 as the code has it: a step either appends to the history, and then it is a
\* step of send_message, or it empties the history, and then it is clear_history;
\* get_message_history and the registration calls leave it alone.
C12_AppendOnlyUntilCleared ==
    [][\/ IsPrefix(history, history') /\ (history' # history => SendStep)
       \/ history' = <<>> /\ clear_history]_vars

\* the history was cleared after a request and its response had been recorded,
\* and a later send has been recorded since
C12_Witness ==
    /\ Len(calls) = 2 /\ \A i \in CallIds : calls[i].outcome = "RESPONDED"
    /\ history = <<calls[2].msg, calls[2].ret>>

----------------------------------------------------------------------------
\* the entries of h whose conversation id is c, in insertion order
Matching(h, c) == SelectSeq(h, LAMBDA m : m.conversation_id = c)

\* C13: get_message_history(c) returns exactly the entries of the history whose
\* conversation id equals c, in insertion order, for every id value c; with no
\* argument it returns the full history
C13_FilterIsExact ==
    [][\A c \in HistoryArgs :
          get_message_history(c) =>
              fetched'.result = IF c = NoneStr THEN history ELSE Matching(history, c)]_vars

----------------------------------------------------------------------------
\* C14: a message built without a caller-supplied conversation id gets a fresh
\* one: the messages sent by send_to_agent for two different user queries that
\* came without a conversation id never share a conversation id
C14_FreshConversationIds ==
    \A q1, q2 \in 1..Len(queries) :
        q1 # q2 /\ queries[q1].conversation_id = NoneStr
                /\ queries[q2].conversation_id = NoneStr =>
            \A m1 \in ExchangeMessages(q1), m2 \in ExchangeMessages(q2) :
                m1.conversation_id # m2.conversation_id

----------------------------------------------------------------------------
\* no entry of the history and no message held by a caller changes in a step
C15_NothingRewritten ==
    /\ IsPrefix(history, history')
    /\ \A i \in CallIds :
          /\ calls'[i].msg = calls[i].msg
          /\ Truthy(calls[i].ret) => calls'[i].ret = calls[i].ret

\* what an activation returned is another message than its request: it has its
\* own message id and its own entry in the history, and the request is still
\* the entry it was appended as
C15_ResponseIsNew(i) ==
    LET c == calls[i] IN
    /\ \E k \in 1..Len(history) : history[k] = c.msg
    /\ Truthy(c.ret) =>
          /\ c.ret.message_id # c.msg.message_id
          /\ \E k, l \in 1..Len(history) :
                k < l /\ history[k] = c.msg /\ history[l] = c.ret

\* C15: messages are immutable once constructed: no step changes a field of a
\* message after it was appended to the history, and every response is a new
\* message with its own message id, distinct from the request it answers
C15_MessagesImmutable ==
    [][C15_NothingRewritten]_vars /\ [](\A i \in CallIds : C15_ResponseIsNew(i))

C15_Witness ==
    /\ Len(history) = 4
    /\ \E i \in CallIds :
          /\ calls[i].handler = "agent" /\ calls[i].proc = "result"
          /\ calls[i].ret.type = "response"
          /\ history[1] = calls[1].msg
          /\ calls[i].ret = history[4]

----------------------------------------------------------------------------
\* C16: whatever the analysis call of the LLM does (it raises, its text is not
\* parseable, or it parses to data of any shape), handle_user_query does not
\* raise because of the analysis step: it goes on with an analysis it can use
\* (the keyword fallback when the LLM's output is not one) and returns a result
C16_AnalysisFailureRecovered ==
    \A q \in 1..Len(queries) :
        /\ queries[q].pc # "raised"
        /\ queries[q].analysis.type = "dict"

----------------------------------------------------------------------------
\* what the keyword fallback has to give for a query text
C17_FlagsOf(query, a) ==
    LET support == AnyIn(Lower(query), support_keywords)
        customer == AnyIn(Lower(query), customer_keywords)
        extracted == ExtractCustomerId(Lower(query)) # NoCustomerId
    IN  /\ a.requires_support = support
        /\ a.requires_customer_data = (customer \/ extracted \/ ~support)
        /\ a.requires_customer_data \/ a.requires_support
        /\ extracted /\ customer /\ ~support =>
              /\ a.customer_id = ExtractCustomerId(Lower(query))
              /\ a.requires_customer_data /\ ~a.requires_support
        /\ query = ExampleQuery =>
              a.customer_id = 5 /\ a.requires_customer_data /\ ~a.requires_support

\* a query analysed by the fallback is sent on at once, to customer_data first
C17_Routed ==
    queries = <<>> /\ queries' # <<>>
                   /\ queries'[1].analysis.type = "dict"
                   /\ queries'[1].analysis.analysis = "Fallback keyword-based analysis" =>
        /\ queries'[1].pc # "raised"
        /\ C17_FlagsOf(queries'[1].query, queries'[1].analysis)
        /\ Len(calls') = 1
        /\ calls'[1].msg.payload.query = queries'[1].query
        /\ calls'[1].msg.recipient =
              IF queries'[1].analysis.requires_customer_data THEN "customer_data"
              ELSE "support"

\* a finished fallback query that needed customer data only
C17_CustomerOnly(q) ==
    LET a == queries[q].analysis IN
    queries[q].pc = "done" /\ a.analysis = "Fallback keyword-based analysis"
                  /\ a.requires_customer_data /\ ~a.requires_support =>
        /\ Len(queries[q].dispatches) = 1
        /\ calls[queries[q].dispatches[1]].msg.recipient = "customer_data"
        /\ \A i \in CallIds : calls[i].msg.recipient # "support"
        /\ calls[queries[q].dispatches[1]].outcome = "RESPONDED"
              /\ calls[queries[q].dispatches[1]].ret.type # "error" =>
                  queries[q].agents_used = <<"customer_data">>

\* C17: the keyword fallback always routes somewhere: requires_support iff a
\* support keyword occurs, requires_customer_data iff a customer keyword occurs
\* or an id was extracted or no support keyword occurs; a query with an id and
\* customer keywords but no support keyword (the example query, id 5) goes to
\* customer_data only and ends with agents_used = <<"customer_data">> when that
\* agent answers
C17_FallbackRoutesSomewhere ==
    /\ [][C17_Routed]_vars
    /\ [](\A q \in 1..Len(queries) : C17_CustomerOnly(q))

C17_Witness ==
    /\ Len(queries) = 1
    /\ queries[1].pc = "done"
    /\ queries[1].query = ExampleQuery
    /\ queries[1].analysis = FallbackAnalysis(ExampleQuery)
    /\ queries[1].analysis.customer_id = 5
    /\ queries[1].agents_used = <<"customer_data">>
    /\ Len(calls) = 1 /\ calls[1].proc = "result"

----------------------------------------------------------------------------
\* the dispatches of query q that went to the specialist called name
DispatchesTo(q, name) == {j \in ExchangeCalls(q) : calls[j].msg.recipient = name}

\* send_to_agent returned a message that is no ERROR
Answered(j) == Truthy(calls[j].ret) /\ calls[j].ret.type # "error"

\* C18: within one handle_user_query call the customer-data dispatch, if the
\* analysis requires it, has completed before the support dispatch is sent, and
\* the QUERY sent to support carries the customer-data agent's payload exactly
\* when that agent was dispatched and returned a non-ERROR response; otherwise
\* it carries no customer data
C18_CustomerDataBeforeSupport ==
    \A q \in 1..Len(queries) : \A s \in DispatchesTo(q, "support") :
        /\ queries[q].analysis.requires_customer_data =>
              DispatchesTo(q, "customer_data") # {}
        /\ \A i \in DispatchesTo(q, "customer_data") :
              /\ i < s /\ calls[i].pc = "done"
              /\ Truthy(calls[i].ret) =>
                    PosOf(calls[i].ret.message_id) < PosOf(calls[s].msg.message_id)
        /\ calls[s].msg.payload.customer_data =
              IF \E i \in DispatchesTo(q, "customer_data") : Answered(i)
              THEN calls[CHOOSE i \in DispatchesTo(q, "customer_data") : TRUE].ret.payload
              ELSE NonePayload

C18_Witness ==
    \E q \in 1..Len(queries) : \E s \in DispatchesTo(q, "support") :
        \E i \in DispatchesTo(q, "customer_data") :
            /\ Answered(i)
            /\ calls[s].msg.payload.customer_data = [response |-> "ok"]
            /\ calls[s].pc = "delivered"

----------------------------------------------------------------------------
\* send_to_agent returned an ERROR: the specialist is not registered, or its
\* processing raised
Failed(j) == Truthy(calls[j].ret) /\ calls[j].ret.type = "error"

\* the specialists of query q whose dispatch returned a non-ERROR response
Remaining(q) ==
    {n \in SpecialistNames : \E j \in DispatchesTo(q, n) : Answered(j)}

\* what the specialist called name answered to query q
PayloadFrom(q, name) ==
    calls[CHOOSE j \in DispatchesTo(q, name) : Answered(j)].ret.payload

\* the result of a finished query is made of what the remaining specialists
\* answered, and of nothing else
C19_FromRemaining(q) ==
    LET ar == queries[q].agent_responses
        names == SelectSeq(<<"customer_data", "support">>, LAMBDA n : n \in Remaining(q))
    IN  /\ DOMAIN ar = Remaining(q)
        /\ \A n \in DOMAIN ar : ar[n] = PayloadFrom(q, n)
        /\ \A o \in SynthesisOutcomes :
              /\ queries[q].response[o].prompt =
                    [k \in 1..Len(names) |->
                        [agent |-> Upper(names[k]),
                         text |-> PayloadFrom(q, names[k]).response]]
              /\ Remaining(q) # {} /\ o = "raises" =>
                    queries[q].response[o].text = PayloadFrom(q, names[1]).response
              /\ Remaining(q) = {} =>
                    queries[q].response[o].text =
                        "I apologize, but I couldn't process your request. Please try again."

\* C19: when the dispatch to one specialist ends in an ERROR, handle_user_query
\* does not raise, the other specialist is still dispatched whenever the
\* analysis requires it, the ERROR payload is never placed in agent_responses,
\* and the final answer is synthesized from the remaining specialist's payload
C19_PartialFailureIsolated ==
    \A q \in 1..Len(queries) : \A j \in ExchangeCalls(q) :
        Failed(j) =>
            /\ queries[q].pc \in {"customer_data", "support", "done"}
            /\ calls[j].msg.recipient \notin DOMAIN queries[q].agent_responses
            /\ \A n \in DOMAIN queries[q].agent_responses :
                  queries[q].agent_responses[n] # calls[j].ret.payload
            /\ queries[q].analysis.requires_support /\ queries[q].pc # "customer_data" =>
                  DispatchesTo(q, "support") # {}
            /\ queries[q].pc = "done" =>
                  /\ queries[q].analysis.requires_customer_data =>
                        DispatchesTo(q, "customer_data") # {}
                  /\ C19_FromRemaining(q)

C19_Witness ==
    \E q \in 1..Len(queries) :
        /\ queries[q].pc = "done"
        /\ \E j \in DispatchesTo(q, "customer_data") :
              Failed(j) /\ calls[j].handler = NoHandler
        /\ \E j \in DispatchesTo(q, "support") : Answered(j)
        /\ queries[q].response["answers"].prompt = <<[agent |-> "SUPPORT", text |-> "ok"]>>
        /\ queries[q].response["raises"].text = "ok"

----------------------------------------------------------------------------
\* the agents a QUERY was dispatched to during query q, in dispatch order
Consulted(q) ==
    [k \in 1..Len(queries[q].dispatches) |-> calls[queries[q].dispatches[k]].msg.recipient]

\* C20: the agents_used list returned by handle_user_query is exactly the list
\* of the agents that were consulted during the call, i.e. those a QUERY was
\* dispatched to, in dispatch order
C20_AgentsUsedAreConsulted ==
    \A q \in 1..Len(queries) :
        queries[q].pc = "done" => queries[q].agents_used = Consulted(q)

----------------------------------------------------------------------------
\* no specialist produced a usable payload for query q: none was dispatched, or
\* every dispatch returned an ERROR or nothing
NoUsablePayload(q) == \A j \in ExchangeCalls(q) : ~Answered(j)

\* C21: if no specialist produced a usable payload, handle_user_query returns
\* the fixed apology as the final text, without invoking the synthesis LLM call
\* (so whatever that call would do), and agents_used is empty
C21_ApologyWithoutSynthesis ==
    \A q \in 1..Len(queries) :
        queries[q].pc = "done" /\ NoUsablePayload(q) =>
            /\ queries[q].agents_used = <<>>
            /\ \A o \in SynthesisOutcomes :
                  /\ queries[q].response[o].text =
                        "I apologize, but I couldn't process your request. Please try again."
                  /\ ~queries[q].response[o].llm_called
                  /\ queries[q].response[o].prompt = <<>>

C21_Witness ==
    \E q \in 1..Len(queries) :
        /\ queries[q].pc = "done" /\ NoUsablePayload(q)
        /\ Len(queries[q].dispatches) = 2
        /\ \E j \in ExchangeCalls(q) : Failed(j)
        /\ \E j \in ExchangeCalls(q) : ~Truthy(calls[j].ret)
        /\ queries[q].response["answers"].text = Apology


\* the structured fields of a returned payload: all of it but the summary text
Structured(payload) == [k \in DOMAIN payload \ {"response"} |-> payload[k]]

\* C24: two runs of a specialist's process on the same message, over the same
\* tables and with the same tool-call results, one with the LLM answering and
\* one with the LLM failing, issue the same tool calls with the same arguments,
\* leave the same tables and return the same data, analysis and errors; only
\* the summary text may differ.
C24_LlmDecidesNoControlFlow ==
    run # NoRun =>
        \A o1, o2 \in SummaryOutcomes :
            /\ run.out[o1].raised = run.out[o2].raised
            /\ run.out[o1].tool_calls = run.out[o2].tool_calls
            /\ run.out[o1].db = run.out[o2].db
            /\ Structured(run.out[o1].payload) = Structured(run.out[o2].payload)

\* a run that called two tools and whose summary depends on the LLM outcome
C24_Witness ==
    /\ run # NoRun
    /\ Len(run.out["answers"].tool_calls) >= 2
    /\ run.out["answers"].payload.response # run.out["raises"].payload.response
    /\ run.out["answers"].payload.data = run.out["raises"].payload.data


\* the classification a support run started from, and its query in lower case
Classified == run.out[run.llm].classified

RunQueryLower == Lower(DictGet(run.payload, "query", <<>>))

\* the query has one of the phrases
HasPhrase(phrases) == \E ph \in phrases : Contains(RunQueryLower, Chars(ph))

\* needs_ticket is true exactly for a high priority, for the categories
\* billing, technical and complaint, and for a query with one of the phrases
NeedsTicketExactly(phrases) ==
    Classified.needs_ticket <=>
        \/ Classified.priority = "high"
        \/ Classified.category \in {"billing", "technical", "complaint"}
        \/ HasPhrase(phrases)

\* the classification is a function of the query alone, and the example query
\* is classified as high, billing, needs_ticket
ClassificationDeterministic ==
    /\ \A o \in SummaryOutcomes : run.out[o].classified = Classified
    /\ Classified = AnalyzeSupportRequest(DictGet(run.payload, "query", <<>>), EmptyDict)
    /\ RunQueryLower = Lower(Chars("I've been charged twice, please refund immediately!"))
           => /\ Classified.priority = "high"
              /\ Classified.category = "billing"
              /\ Classified.needs_ticket

\* C25 (as stated): the support classification is deterministic and needs_ticket
\* is true exactly when the priority is high, or the category is billing,
\* technical or complaint, or the query has the phrase "create ticket" or
\* "open ticket"; the example query yields high, billing, needs_ticket.
C25_NeedsTicketAsStated ==
    run.agent = "support" =>
        ClassificationDeterministic /\ NeedsTicketExactly({"create ticket", "open ticket"})

\* C25 (amended): as above, with the phrases "create ticket", "open ticket",
\* "log issue" and "report" as the explicit requests.
C25_NeedsTicketExactly ==
    run.agent = "support" =>
        /\ ClassificationDeterministic
        /\ NeedsTicketExactly({"create ticket", "open ticket", "log issue", "report"})

\* the example query was classified: high, billing, needs_ticket
C25_Witness ==
    /\ run.agent = "support"
    /\ RunQueryLower = Lower(Chars("I've been charged twice, please refund immediately!"))
    /\ Classified.priority = "high"
    /\ Classified.category = "billing"
    /\ Classified.needs_ticket


\* every tool call of the run was served
AllServed == \A k \in 1..Len(run.out[run.llm].tool_calls) :
                 run.out[run.llm].tool_calls[k].mode = "served"

\* the tickets of the run's customer that were not resolved before the run
OpenBefore ==
    Len(SelectSeq(run.before.tickets,
                  LAMBDA t : /\ t.customer_id = DictGet(run.payload, "customer_id",
                                                        NoCustomerId)
                             /\ t.status # "resolved"))

\* the analysis in the payload the run returned
Returned == run.out[run.llm].payload

\* C26: in the payload the support agent returns, escalation_needed is true
\* when the category is complaint or the customer had three or more tickets not
\* resolved before this query was handled (the ticket created for the query
\* does not count), and false otherwise; when set because of the count, the
\* reason mentions that count.
C26_EscalationRule ==
    (run.agent = "support" /\ AllServed) =>
        /\ Returned.analysis.escalation_needed <=>
               (Returned.analysis.category = "complaint" \/ OpenBefore >= 3)
        /\ OpenBefore >= 3 => Returned.analysis.escalation_reason = CountReason(OpenBefore)


\* the create_ticket calls of the run
TicketCalls == SelectSeq(run.out[run.llm].tool_calls, LAMBDA c : c.tool = "create_ticket")

\* C27 (as stated): for every message the support agent handles, if the
\* classification has needs_ticket then exactly one create_ticket call is issued,
\* with the derived priority and an issue summary of at most 200 characters;
\* if needs_ticket is false no create_ticket call is issued.
C27_OneTicketPerNeed ==
    run.agent = "support" =>
        IF Classified.needs_ticket
        THEN /\ Len(TicketCalls) = 1
             /\ TicketCalls[1].args.priority = Classified.priority
             /\ Len(TicketCalls[1].args.issue) <= 200
        ELSE TicketCalls = <<>>

\* C27 (amended): the same for the messages that carry a customer id (not None,
\* not 0); for a message without one no create_ticket call is issued, whatever
\* the classification.
C27_OneTicketPerNeedWithCustomer ==
    run.agent = "support" =>
        IF Classified.needs_ticket /\ IdTruthy(DictGet(run.payload, "customer_id", NoCustomerId))
        THEN /\ Len(TicketCalls) = 1
             /\ TicketCalls[1].args.customer_id = run.payload.customer_id
             /\ TicketCalls[1].args.priority = Classified.priority
             /\ TicketCalls[1].args.issue = Classified.issue_summary
             /\ Len(TicketCalls[1].args.issue) <= 200
        ELSE TicketCalls = <<>>

\* a ticket was asked for with the first 200 characters of a longer query
C27_Witness ==
    /\ run.agent = "support"
    /\ Len(DictGet(run.payload, "query", <<>>)) > 200
    /\ Len(TicketCalls) = 1
    /\ Len(TicketCalls[1].args.issue) = 200


\* the update_customer calls of the run, its query and its customer id
UpdateCalls == SelectSeq(run.out[run.llm].tool_calls, LAMBDA c : c.tool = "update_customer")

RunQuery == DictGet(run.payload, "query", <<>>)

RunCustomer == DictGet(run.payload, "customer_id", NoCustomerId)

\* the tables after the run differ from those before at most in the fields
\* written of the row of customer id
OnlyWritten(id, fields) ==
    /\ run.out[run.llm].db.tickets = run.before.tickets
    /\ DOMAIN run.out[run.llm].db.customers = DOMAIN run.before.customers
    /\ \A c \in DOMAIN run.before.customers :
           \A f \in DOMAIN run.before.customers[c] :
               (c # id \/ f \notin fields)
                   => run.out[run.llm].db.customers[c][f] = run.before.customers[c][f]

\* C28: the customer-data agent issues an update_customer call only when the
\* query contains "update", a customer id is known and the fixed patterns
\* extracted at least one of email, phone and name; the call carries exactly the
\* extracted fields for that customer id, at most one update call is issued per
\* message, and no other tool call of the agent changes the tables.
C28_UpdateOnlyOnRequest ==
    run.agent = "customer_data" =>
        /\ Len(UpdateCalls) <= 1
        /\ UpdateCalls # <<>> =>
               /\ Has(Lower(RunQuery), "update")
               /\ IdTruthy(RunCustomer)
               /\ DOMAIN UpdateData(RunQuery) # {}
               /\ DOMAIN UpdateData(RunQuery) \subseteq {"email", "phone", "name"}
               /\ DOMAIN UpdateCalls[1].args = {"customer_id"} \cup DOMAIN UpdateData(RunQuery)
               /\ UpdateCalls[1].args.customer_id = RunCustomer
               /\ \A f \in DOMAIN UpdateData(RunQuery) :
                      UpdateCalls[1].args[f] = UpdateData(RunQuery)[f]
        /\ IF UpdateCalls = <<>> THEN run.out[run.llm].db = run.before
           ELSE OnlyWritten(RunCustomer, DOMAIN UpdateData(RunQuery))

\* an update of customer 5's email was issued after other calls, and written
C28_Witness ==
    /\ run.agent = "customer_data"
    /\ Len(UpdateCalls) = 1
    /\ Len(run.out[run.llm].tool_calls) >= 2
    /\ UpdateCalls[1].args = [customer_id |-> 5, email |-> "new@example.com"]
    /\ run.out[run.llm].db.customers[5].email = "new@example.com"
    /\ run.before.customers[5].email = "user5@example.com"


\* the served calls of a tool in the run
ServedCalls(tool) ==
    SelectSeq(run.out[run.llm].tool_calls, LAMBDA c : c.tool = tool /\ c.mode = "served")

\* C29: every successful tool result reaches the specialist's structured bag:
\* after a successful get_customer call the data the customer-data agent returns
\* holds the customer record the tool returned, and after a successful
\* create_ticket call the data the support agent returns holds the created
\* ticket under ticket_created.
C29_ResultsReachTheBag ==
    /\ (/\ run.agent = "customer_data"
        /\ ServedCalls("get_customer") # <<>>
        /\ RunCustomer \in DOMAIN run.before.customers)
           => /\ "customer" \in DOMAIN Returned.data
              /\ Returned.data["customer"] = run.before.customers[RunCustomer]
    /\ (/\ run.agent = "support"
        /\ ServedCalls("create_ticket") # <<>>
        /\ RunCustomer \in DOMAIN run.before.customers)
           => /\ "ticket_created" \in DOMAIN Returned.data
              /\ Returned.data["ticket_created"]
                     = run.out[run.llm].db.tickets[Len(run.before.tickets) + 1]


\* the calls of the run that did not succeed
FailedCalls == SelectSeq(run.out[run.llm].tool_calls, LAMBDA c : c.mode # "served")

\* C30: for every outcome of every tool call a specialist makes (success, a
\* result flagged unsuccessful, a protocol failure raised, a tool failure
\* raised), process returns its payload and never raises, and every call that
\* failed has an entry in the payload's errors list.
C30_FailuresAreReported ==
    run # NoRun =>
        /\ \A o \in SummaryOutcomes : ~run.out[o].raised
        /\ Len(Returned.errors) >= Len(FailedCalls)
        /\ \A k \in 1..Len(FailedCalls) :
               FailedCalls[k].mode = "protocol_error"
                   => \E e \in 1..Len(Returned.errors) :
                          Returned.errors[e] = ProtocolFailure


\* the payload collected from the agent has a textual summary
HasSummary(agent_responses, name) ==
    /\ name \in DOMAIN agent_responses
    /\ "response" \in DOMAIN agent_responses[name]

\* the payloads a query collected are those its dispatches were answered with
CollectedFromDispatches(q) ==
    \A n \in DOMAIN queries[q].agent_responses :
        \E k \in 1..Len(queries[q].dispatches) :
            /\ calls[queries[q].dispatches[k]].msg.recipient = n
            /\ calls[queries[q].dispatches[k]].ret.type = "response"
            /\ calls[queries[q].dispatches[k]].ret.payload = queries[q].agent_responses[n]

\* C22: if at least one specialist payload was collected and the synthesis call
\* of the LLM fails, handle_user_query does not raise and the final text is the
\* 'response' of the first collected payload that has one, customer_data before
\* support, verbatim; if no collected payload has one, it is the generic
\* "processed" message.
C22_FallbackToFirstSummary ==
    \A q \in 1..Len(queries) :
        DOMAIN queries[q].agent_responses # {} =>
            /\ queries[q].pc # "raised"
            /\ CollectedFromDispatches(q)
            /\ queries[q].pc = "done" =>
                   queries[q].response["raises"].text =
                       IF HasSummary(queries[q].agent_responses, "customer_data")
                       THEN queries[q].agent_responses["customer_data"].response
                       ELSE IF HasSummary(queries[q].agent_responses, "support")
                       THEN queries[q].agent_responses["support"].response
                       ELSE "Request processed. Please check the details above."

\* both specialists answered with different summaries, the synthesis call
\* failed, and the user got the customer-data agent's summary
C22_Witness ==
    \E q \in 1..Len(queries) :
        /\ queries[q].pc = "done"
        /\ HasSummary(queries[q].agent_responses, "customer_data")
        /\ HasSummary(queries[q].agent_responses, "support")
        /\ queries[q].agent_responses["customer_data"].response
               # queries[q].agent_responses["support"].response
        /\ queries[q].response["raises"].text
               = queries[q].agent_responses["customer_data"].response


\* the raw texts of the internal failures: of a tool call, of a handler
InternalFailures == {DatabaseFailure, ToolFailure, ProtocolFailure, "process failed"}

\* the text w occurs in the text s
Quotes(s, w) ==
    \E p \in 1..(Len(s) - Len(w) + 1) : SubSeq(s, p, p + Len(w) - 1) = w

\* C23: the final text handle_user_query returns never contains the raw text of
\* an internal failure, for every combination of tool, handler and LLM
\* outcomes: the user sees a synthesized answer, a specialist's summary or the
\* apology.
C23_NoRawFailureToUser ==
    \A q \in 1..Len(queries) :
        queries[q].pc = "done" =>
            \A o \in SynthesisOutcomes :
                \A f \in InternalFailures : ~Quotes(queries[q].response[o].text, f)

----------------------------------------------------------------------------
\* a name's descriptor in a Directory table, None when it has none
Descriptor(ag, name) == DictGet(ag, name, NoInfo)

\* every name but name has in ag the entry it had in before
OthersKept(ag, before, name) ==
    \A m \in AgentNames \ {name} :
        /\ m \in DOMAIN ag <=> m \in DOMAIN before
        /\ Descriptor(ag, m) = Descriptor(before, m)

\* C32: the Directory holds, under each name, exactly the descriptor made by the
\* latest register call for that name when no unregister of it followed, and
\* nothing otherwise; a register call of an already registered name returns
\* without error, its descriptor takes the place of the old one, and every
\* other name keeps its descriptor.
C32_LatestRegistrationWins ==
    /\ \A n \in AgentNames :
          /\ n \in DOMAIN agents <=>
                (n \in DOMAIN lastDirOp /\ lastDirOp[n].op = "register")
          /\ n \in DOMAIN agents =>
                agents[n] = lastDirOp[n].info /\ agents[n].name = n
    /\ ret.op = "register" =>
          /\ ~ret.raised
          /\ Descriptor(agents, ret.name) = ret.value
          /\ OthersKept(agents, ret.before, ret.name)

\* a registered name was registered again with another description, next to
\* another registered name
C32_Witness ==
    /\ ret.op = "register"
    /\ ret.name \in DOMAIN ret.before
    /\ ret.before[ret.name] # ret.value
    /\ DOMAIN ret.before = AgentNames

\* C33: unregister(name) returns true exactly when name was registered; in both
\* cases name has no descriptor afterwards (get gives None, list_agents and
\* find_by_capability do not show it) and every other name keeps its
\* descriptor, so an unregister of an unknown name changes nothing.
C33_UnregisterRemovesExactlyOne ==
    /\ ret.op = "unregister" =>
          /\ ret.value <=> ret.name \in DOMAIN ret.before
          /\ ~ret.value => agents = ret.before
          /\ ret.name \notin DOMAIN agents
          /\ Get(agents, ret.name) = NoInfo
          /\ \A info \in ListAgents(agents) : info.name # ret.name
          /\ \A c \in Capabilities :
                \A info \in FindByCapability(agents, c) : info.name # ret.name
          /\ OthersKept(agents, ret.before, ret.name)
    /\ \A n \in AgentNames :
          (n \in DOMAIN lastDirOp /\ lastDirOp[n].op = "unregister") =>
              /\ (ret.op = "get" /\ ret.name = n) => ret.value = NoInfo
              /\ ret.op \in {"list_agents", "find_by_capability"} =>
                    \A info \in ret.value : info.name # n

\* a registered name is unregistered while another name stays registered
C33_Witness ==
    /\ ret.op = "unregister"
    /\ ret.value
    /\ DOMAIN ret.before = AgentNames
    /\ DOMAIN agents = AgentNames \ {ret.name}

\* C39: every name listed in the Directory has a handler on the bus, so no
\* send addressed to a listed name is answered with the 'not found' error.
C39_ListedNamesAreAddressable ==
    \A n \in DOMAIN agents :
        /\ LookupHandler(handlers, n) # NoHandler
        /\ \A c \in Capabilities :
              n \in FindAgentForCapability(agents, c) => n \in DOMAIN handlers

----------------------------------------------------------------------------
\* the step is an unregister_handler(n) call: a call that hands out no port
IsUnregisterHandler(n) ==
    /\ regOps' = regOps + 1
    /\ next_port' = next_port
    /\ n \in DOMAIN lastOp'
    /\ lastOp'[n].op = "unregister"
    /\ lastOp' = DictSet(lastOp, n, lastOp'[n])

\* table t has for every name but n the entry it had before the step
TableKeptBut(t, tAfter, n) ==
    /\ DOMAIN tAfter \ {n} = DOMAIN t \ {n}
    /\ \A m \in DOMAIN t \ {n} : tAfter[m] = t[m]

\* the handler, card and URL tables have one set of names, which holds the
\* names of the client table
TablesAgree ==
    /\ DOMAIN handlers = DOMAIN agent_cards
    /\ DOMAIN handlers = DOMAIN agent_urls
    /\ DOMAIN clients \subseteq DOMAIN handlers

\* C36: the handler, card and URL tables always have the same names and the
\* client table's names are among them; an unregister_handler(name) call leaves
\* name in none of the four tables and every other name's entries as they were.
C36_TablesAgree ==
    /\ []TablesAgree
    /\ [][\A n \in BusNames :
             IsUnregisterHandler(n) =>
                 /\ n \notin DOMAIN handlers' \cup DOMAIN agent_cards'
                          \cup DOMAIN agent_urls' \cup DOMAIN clients'
                 /\ TableKeptBut(handlers, handlers', n)
                 /\ TableKeptBut(agent_cards, agent_cards', n)
                 /\ TableKeptBut(agent_urls, agent_urls', n)
                 /\ TableKeptBut(clients, clients', n)]_vars

\* a name was unregistered and get_client of it gave None, while another name
\* still has the client made for it
C36_Witness ==
    \E n \in BusNames : \E m \in BusNames \ {n} :
        /\ n \in DOMAIN lastOp /\ lastOp[n].op = "unregister"
        /\ ret.op = "get_client" /\ ret.name = n /\ ret.value = NoClient
        /\ m \in DOMAIN clients /\ clients[m] = A2AClient(agent_urls[m])

----------------------------------------------------------------------------
\* C34: from_dict(to_dict(m)) is m, field by field (sender, recipient, type,
\* payload, conversation id, message id, timestamp, metadata), for messages of
\* every one of the eight types; to_dict writes the type as its wire string.
C34_RoundTrip ==
    /\ ret.op = "to_dict" =>
          /\ ret.value.type = PlainStr(MessageTypeValues[ret.message.type.text])
          /\ FromDict(ret.value, Only(FreshValues)) = ret.message
    /\ ret.op = "from_dict" =>
          \A m \in Messages :
              ret.data = ToDict(m) =>
                  /\ ret.value.sender = m.sender
                  /\ ret.value.recipient = m.recipient
                  /\ ret.value.type = m.type
                  /\ ret.value.payload = m.payload
                  /\ ret.value.conversation_id = m.conversation_id
                  /\ ret.value.message_id = m.message_id
                  /\ ret.value.timestamp = m.timestamp
                  /\ ret.value.metadata = m.metadata

\* a HANDOFF message with a payload and metadata came back from its dict
C34_Witness ==
    /\ ret.op = "from_dict"
    /\ \E m \in Messages : ret.data = ToDict(m) /\ ret.value = m
    /\ ret.value.type = Member("HANDOFF")
    /\ ret.value.payload # EmptyDict
    /\ ret.value.metadata # EmptyDict

----------------------------------------------------------------------------
\* the tickets the last create_ticket call found and left
TicketsBefore == ret.before.tickets

TicketsAfter == db.tickets

\* the last create_ticket call had a valid priority and a known customer
Creatable ==
    /\ ret.args.priority \in {"low", "medium", "high"}
    /\ ret.args.customer_id \in DOMAIN ret.before.customers

\* the last create_ticket call added one open ticket with its arguments
InsertedOne ==
    /\ Len(TicketsAfter) = Len(TicketsBefore) + 1
    /\ SubSeq(TicketsAfter, 1, Len(TicketsBefore)) = TicketsBefore
    /\ TicketsAfter[Len(TicketsAfter)].customer_id = ret.args.customer_id
    /\ TicketsAfter[Len(TicketsAfter)].issue = ret.args.issue
    /\ TicketsAfter[Len(TicketsAfter)].priority = ret.args.priority
    /\ TicketsAfter[Len(TicketsAfter)].status = "open"

\* the call returned success with the ticket it inserted
ReturnedTicket ==
    /\ ret.value.success
    /\ ret.value.data = TicketsAfter[Len(TicketsAfter)]

\* the call returned success = false with an error text
ReturnedFailure ==
    /\ ~ret.value.success
    /\ ret.value.error # ""

\* C35 as stated: create_ticket never raises; with a valid priority and an
\* existing customer it inserts one open ticket and returns it with success,
\* and otherwise returns success = false and leaves the tickets alone.
C35_CreateTicketAsStated ==
    ret.op = "create_ticket" =>
        /\ ~ret.raised
        /\ IF Creatable THEN InsertedOne /\ ReturnedTicket
           ELSE ReturnedFailure /\ TicketsAfter = TicketsBefore

\* C35: create_ticket never raises. While the database works, a valid priority
\* with an existing customer inserts one open ticket and returns it with
\* success, and any other priority or an unknown customer returns
\* success = false with the tickets unchanged. When a database operation fails
\* the call returns success = false with the error text, and the tickets are
\* unchanged unless the failure came after the commit.
C35_CreateTicketReportsByValue ==
    ret.op = "create_ticket" =>
        /\ ~ret.raised
        /\ ~Creatable => ReturnedFailure /\ TicketsAfter = TicketsBefore
        /\ (Creatable /\ ret.database = "works") => InsertedOne /\ ReturnedTicket
        /\ (Creatable /\ ret.database = "fails") =>
              ReturnedFailure /\ TicketsAfter = TicketsBefore
        /\ (Creatable /\ ret.database = "fails_after_commit") =>
              ReturnedFailure /\ InsertedOne

\* a ticket was created for customer 5, and one with priority 'invalid' refused
C35_Witness ==
    /\ ret.op = "create_ticket"
    /\ ret.args.priority = "invalid"
    /\ ReturnedFailure
    /\ TicketsAfter = TicketsBefore
    /\ Len(TicketsBefore) > Len(SampleDb.tickets)
    /\ TicketsBefore[Len(TicketsBefore)].issue = "New test issue"
    /\ TicketsBefore[Len(TicketsBefore)].status = "open"

\* C31: a failed call_tool is reported by tier: a protocol-level failure as an
\* MCPError, a tool-level failure as an MCPToolError, never one as the other.
C31_TiersAreDistinguished ==
    ret.op = "call_tool" =>
        /\ ret.tier = "protocol" => ret.got.raised /\ ret.got.class = MCPErrorClass
        /\ ret.tier = "tool" => ret.got.raised /\ ret.got.class = MCPToolErrorClass
        /\ ret.tier = "none" => ~ret.got.raised

----------------------------------------------------------------------------
\* the number of dispatches of query q addressed to name
DispatchCount(q, name) ==
    Cardinality({k \in 1..Len(queries[q].dispatches) :
                    calls[queries[q].dispatches[k]].msg.recipient = name})

\* the messages of query q: at most one QUERY to each specialist, nothing else
RoutesOnlyToSpecialists(q) ==
    /\ DispatchCount(q, "customer_data") <= 1
    /\ DispatchCount(q, "support") <= 1
    /\ \A k \in 1..Len(queries[q].dispatches) :
          /\ calls[queries[q].dispatches[k]].msg.recipient \in SpecialistNames
          /\ calls[queries[q].dispatches[k]].msg.type = "query"
          /\ calls[queries[q].dispatches[k]].msg.sender = "router"

\* every message the router sent is a dispatch of a query, and the history
\* holds nothing but the dispatches and their answers
NothingElseSent ==
    /\ \A i \in 1..Len(calls) :
          calls[i].msg.sender = "router" =>
              \E q \in 1..Len(queries) : i \in ExchangeCalls(q)
    /\ \A i \in 1..Len(calls) : calls[i].msg.recipient # "router"
    /\ Len(history) <= 4 * Len(queries)

\* handle_user_query has returned or raised
Terminated(q) == queries[q].pc \in {"done", "raised"}

\* C37: a handle_user_query call sends at most one QUERY to customer_data and at
\* most one to support and nothing to anyone else, never to the router; it adds
\* at most four entries to the history; and when handlers return or raise, it
\* terminates.
C37_BoundedRouting ==
    /\ [](\A q \in 1..Len(queries) : RoutesOnlyToSpecialists(q))
    /\ []NothingElseSent
    /\ (queries # <<>>) ~> (queries # <<>> /\ Terminated(1))

\* a query has returned after one dispatch to each specialist, with four
\* entries in the history
C37_Witness ==
    /\ queries # <<>>
    /\ queries[1].pc = "done"
    /\ DispatchCount(1, "customer_data") = 1
    /\ DispatchCount(1, "support") = 1
    /\ Len(history) = 4

----------------------------------------------------------------------------
\* the logs after the router, alone, has asked the specialists of todo
RECURSIVE Handled(_, _, _)
Handled(lg, about, todo) ==
    IF todo = <<>> THEN lg
    ELSE Handled(Emit(Emit(lg, todo[1], about, SpecialistEntries),
                      "router", about, RouterAfter(todo[1], Tail(todo))),
                 about, Tail(todo))

\* the entries the three agents emit while handling the query of call about
EmittedFor(about, plan) ==
    AllLogs(Handled(Emit(EmptyDict, "router", about, RouterOpening(plan)),
                    about, Route(plan)))

\* the members of a sequence
Members(seq) == {seq[k] : k \in 1..Len(seq)}

\* C38: the agent_logs of a returned process_query_async call are exactly the
\* entries the three agents emitted for that call's query, whatever other call
\* is active meanwhile.
C38_LogsBelongToTheQuery ==
    \A t \in Threads :
        (threads[t].pc = "returned" /\ threads[t].api # "initialize") =>
            Members(threads[t].agent_logs) = Members(EmittedFor(threads[t].about,
                                                                threads[t].plan))

\* C40: the three agents are constructed and registered once: no agent is
\* constructed a fourth time and no name's handler, URL or descriptor is
\* installed again, however the calls of the two threads overlap.
C40_ConstructedOnce ==
    /\ system.built <= 3
    /\ next_port <= BasePort + 3
    /\ \A n \in DOMAIN agent_urls : agent_urls[n] = SystemPorts[n]

====
